---- MODULE Spec2Model ----
(***************************************************************************)
(* Word Radar backend (netlify/functions/word-radar-data.js): the sense    *)
(* normaliser, the similarity scorer, the greedy sense clustering engine   *)
(* and the request handler, as state machines.                             *)
(*                                                                         *)
(* A JavaScript string is a sequence of one-character strings.  A float    *)
(* that the code obtains as a quotient of two set sizes is kept as the     *)
(* exact fraction [num, den].                                              *)
(***************************************************************************)
EXTENDS Integers, Sequences, FiniteSets, TLC

VARIABLES
    \* the normaliser / scorer under test
    str1, str2, cleaned, recleaned, sim, fpc,
    \* generateCacheKey under test: two payloads, two prompts, the two keys
    payload1, payload2, object1, object2, prompt1, prompt2, key1, key2, kpc,
    \* one run of processSensesWithClustering
    allRawSenses, primarySenseCount, maxTotalSenses, similarityThreshold,
    processedSenses, idx, clusters, result, cpc,
    \* the objects and arrays of that run, by address, where aliasing is followed
    heap,
    \* the handler: process.env, the blob store, and per request the event and
    \* the invocation (position, locals, response, collaborator calls made)
    env, cache, event, inv

keyVars == <<payload1, payload2, object1, object2, prompt1, prompt2, key1, key2, kpc>>
fnVars == <<str1, str2, cleaned, recleaned, sim, fpc, keyVars>>
clusterVars == <<allRawSenses, primarySenseCount, maxTotalSenses, similarityThreshold,
                 processedSenses, idx, clusters, result, cpc, heap>>
handlerVars == <<env, cache, event, inv>>
vars == <<fnVars, clusterVars, handlerVars>>

----------------------------------------------------------------------------
(* Bounds of the model *)

\* longest definition string given to cleanDefinition
MaxLen == 4
\* longest string given to calculateSimilarity
MaxSimLen == 3
\* longest list of raw senses given to processSensesWithClustering
MaxSenses == 3
\* largest primarySenseCount and maxTotalSenses tried
MaxPrimary == 2
MaxTotal == 3
\* number of requests the handler is invoked for
NumReqs == 2
\* longest thesaurus reply, in entries, drawn freely from the entry pool
MaxEntries == 2
MaxDistinct == 10
\* most properties of an object given to generateCacheKey
MaxKeys == 2

----------------------------------------------------------------------------
(* Strings *)

NL == "\n"
Whitespace == {" ", NL}
Letters == {"a", "b", "A"}
Alphabet == {"{", "}", ":", ";", ","} \cup Whitespace \cup Letters
SimAlphabet == Whitespace \cup {"a", "b"}

StringsOver(chars, n) == UNION {[1..k -> chars] : k \in 0..n}

Max(a, b) == IF a >= b THEN a ELSE b
Min(a, b) == IF a <= b THEN a ELSE b

IsWs(c) == c \in Whitespace

\* s from position i to its end
Tail2(s, i) == SubSeq(s, i, Len(s))

\* first position >= i of s that holds no whitespace, Len(s)+1 when there is none
RECURSIVE SkipWs(_, _)
SkipWs(s, i) ==
    IF i > Len(s) \/ ~IsWs(s[i]) THEN i ELSE SkipWs(s, i + 1)

\* String.prototype.replace(/{.*?}/g, ''): from the left, each '{' that has a '}'
\* after it on the same line is removed together with everything up to the
\* nearest such '}' ('.' matches no line terminator)
RECURSIVE StripMarkup(_)
StripMarkup(s) ==
    IF s = <<>> THEN <<>>
    ELSE IF s[1] # "{" THEN <<s[1]>> \o StripMarkup(Tail(s))
    ELSE LET closing == {j \in 2..Len(s) :
                            /\ s[j] = "}"
                            /\ \A k \in 2..(j - 1) : s[k] # NL /\ s[k] # "}"}
         IN  IF closing = {} THEN <<s[1]>> \o StripMarkup(Tail(s))
             ELSE LET j == CHOOSE x \in closing : TRUE
                  IN StripMarkup(Tail2(s, j + 1))

\* replace(/\s+/g, ' '): every run of whitespace becomes one space
RECURSIVE CollapseWs(_)
CollapseWs(s) ==
    IF s = <<>> THEN <<>>
    ELSE IF IsWs(s[1]) THEN <<" ">> \o CollapseWs(Tail2(s, SkipWs(s, 1)))
    ELSE <<s[1]>> \o CollapseWs(Tail(s))

\* replace(/^:\s*/, ''): one leading colon and the whitespace after it
StripLeadingColon(s) ==
    IF s # <<>> /\ s[1] = ":" THEN Tail2(s, SkipWs(s, 2)) ELSE s

\* replace(/[;,].*$/, ''): cut at the leftmost ';' or ',' that has no line
\* terminator after it ('.' matches none, '$' is the end of the string)
FirstClause(s) ==
    LET cuts == {i \in 1..Len(s) :
                    /\ s[i] \in {";", ","}
                    /\ \A k \in (i + 1)..Len(s) : s[k] # NL}
    IN  IF cuts = {} THEN s
        ELSE LET i == CHOOSE x \in cuts : \A y \in cuts : x <= y
             IN SubSeq(s, 1, i - 1)

\* String.prototype.trim
RECURSIVE TrimEnd(_)
TrimEnd(s) ==
    IF s # <<>> /\ IsWs(s[Len(s)]) THEN TrimEnd(SubSeq(s, 1, Len(s) - 1)) ELSE s

Trim(s) == TrimEnd(Tail2(s, SkipWs(s, 1)))

\* String.prototype.toLowerCase
LowerChar(c) == IF c = "A" THEN "a" ELSE c
ToLowerCase(s) == [i \in 1..Len(s) |-> LowerChar(s[i])]

cleanDefinition(definition) ==
    ToLowerCase(Trim(FirstClause(StripLeadingColon(CollapseWs(StripMarkup(definition))))))

\* String.prototype.split(/\s+/): the pieces between the runs of whitespace,
\* the first and the last piece included even when empty
RECURSIVE SplitFrom(_, _, _)
SplitFrom(s, i, cur) ==
    IF i > Len(s) THEN <<cur>>
    ELSE IF IsWs(s[i]) THEN <<cur>> \o SplitFrom(s, SkipWs(s, i), <<>>)
    ELSE SplitFrom(s, i + 1, Append(cur, s[i]))

SplitWs(s) == SplitFrom(s, 1, <<>>)

\* new Set(array)
SetOf(seq) == {seq[i] : i \in 1..Len(seq)}

\* a float that is the quotient of two naturals, den > 0
Frac(n, d) == [num |-> n, den |-> d]
FracGT(x, y) == x.num * y.den > y.num * x.den
FracEq(x, y) == x.num * y.den = y.num * x.den

\* the scorer with the union taken to be the first token set alone
calculateSimilarityFirstOnly(s1, s2) ==
    LET words1 == SetOf(SplitWs(s1))
        words2 == SetOf(SplitWs(s2))
        intersection == {x \in words1 : x \in words2}
    IN  Frac(Cardinality(intersection), Cardinality(words1))

calculateSimilarity(s1, s2) ==
    LET words1 == SetOf(SplitWs(s1))
        words2 == SetOf(SplitWs(s2))
        intersection == {x \in words1 : x \in words2}
        union == words1 \cup words2
    IN  IF Cardinality(union) = 0 THEN Frac(0, 1)
        ELSE Frac(Cardinality(intersection), Cardinality(union))

----------------------------------------------------------------------------
(* processSensesWithClustering *)

\* .map(sense => ({...sense, cleanDef, synonymCount}))
ProcessSense(sense) ==
    [definition   |-> sense.definition,
     synonyms     |-> sense.synonyms,
     cleanDef     |-> cleanDefinition(sense.definition),
     synonymCount |-> Len(sense.synonyms)]

MapProcess(raw) == [i \in 1..Len(raw) |-> ProcessSense(raw[i])]

\* Array.prototype.sort((a, b) => b.synonymCount - a.synonymCount): stable,
\* descending by synonymCount
RECURSIVE InsertDesc(_, _)
InsertDesc(sorted, x) ==
    IF sorted = <<>> THEN <<x>>
    ELSE IF sorted[1].synonymCount >= x.synonymCount
         THEN <<sorted[1]>> \o InsertDesc(Tail(sorted), x)
         ELSE <<x>> \o sorted

RECURSIVE SortBySynonymCount(_)
SortBySynonymCount(seq) ==
    IF seq = <<>> THEN <<>>
    ELSE InsertDesc(SortBySynonymCount(SubSeq(seq, 1, Len(seq) - 1)), seq[Len(seq)])

\* Array.from(new Set(array)): first occurrences, in order
RECURSIVE Dedup(_)
Dedup(seq) ==
    IF seq = <<>> THEN <<>>
    ELSE LET front == Dedup(SubSeq(seq, 1, Len(seq) - 1))
             x == seq[Len(seq)]
         IN  IF x \in SetOf(front) THEN front ELSE Append(front, x)

\* the merge that keeps the definition the cluster was seeded with
MergeIntoKeepFirst(cluster, sense) ==
    LET combinedSynonyms == Dedup(cluster.synonyms \o sense.synonyms)
    IN  [definition   |-> cluster.definition,
         cleanDef     |-> cluster.cleanDef,
         synonyms     |-> combinedSynonyms,
         synonymCount |-> Len(combinedSynonyms)]

\* the merge that replaces the synonyms of the cluster by those of the sense
MergeIntoOverwrites(cluster, sense) ==
    LET longer == Len(sense.definition) > Len(cluster.definition)
    IN  [definition   |-> IF longer THEN sense.definition ELSE cluster.definition,
         cleanDef     |-> IF longer THEN sense.cleanDef ELSE cluster.cleanDef,
         synonyms     |-> Dedup(sense.synonyms),
         synonymCount |-> Len(Dedup(sense.synonyms))]

\* the body of the if at lines 253-266: the cluster after it absorbed the sense
MergeInto(cluster, sense) ==
    LET combinedSynonyms == Dedup(cluster.synonyms \o sense.synonyms)
        longer == Len(sense.definition) > Len(cluster.definition)
    IN  [definition   |-> IF longer THEN sense.definition ELSE cluster.definition,
         cleanDef     |-> IF longer THEN sense.cleanDef ELSE cluster.cleanDef,
         synonyms     |-> combinedSynonyms,
         synonymCount |-> Len(combinedSynonyms)]

\* index of the cluster the sense is most similar to among those it is similar
\* to, the earliest of them on a tie; 0 if none
FirstMatchMostSimilar(cls, sense, threshold) ==
    LET score(i) == calculateSimilarity(sense.cleanDef, cls[i].cleanDef)
        hits == {i \in 1..Len(cls) : FracGT(score(i), threshold)}
    IN  IF hits = {} THEN 0
        ELSE CHOOSE i \in hits :
                 \A j \in hits : ~FracGT(score(j), score(i)) /\ (FracEq(score(j), score(i)) => i <= j)

\* index of the first cluster whose similarity to the sense reaches the threshold
FirstMatchAtLeast(cls, sense, threshold) ==
    LET hits == {i \in 1..Len(cls) :
                    ~FracGT(threshold, calculateSimilarity(sense.cleanDef, cls[i].cleanDef))}
    IN  IF hits = {} THEN 0 ELSE CHOOSE i \in hits : \A j \in hits : i <= j

\* index of the first cluster, in creation order, the sense is similar to; 0 if none
FirstMatch(cls, sense, threshold) ==
    LET hits == {i \in 1..Len(cls) :
                    FracGT(calculateSimilarity(sense.cleanDef, cls[i].cleanDef), threshold)}
    IN  IF hits = {} THEN 0 ELSE CHOOSE i \in hits : \A j \in hits : i <= j

\* the loop body with the zero-synonym test left out
ClusterStepNoSkip(cls, sense, threshold) ==
    LET i == FirstMatch(cls, sense, threshold)
    IN  IF i = 0 THEN Append(cls, sense)
        ELSE [cls EXCEPT ![i] = MergeInto(cls[i], sense)]

\* the loop body with foundCluster never set: a merged sense seeds a cluster too
ClusterStepNoFound(cls, sense, threshold) ==
    IF sense.synonymCount = 0 THEN cls
    ELSE LET i == FirstMatch(cls, sense, threshold)
         IN  IF i = 0 THEN Append(cls, sense)
             ELSE Append([cls EXCEPT ![i] = MergeInto(cls[i], sense)], sense)

\* one iteration of the for loop over processedSenses
ClusterStep(cls, sense, threshold) ==
    IF sense.synonymCount = 0 THEN cls
    ELSE LET i == FirstMatch(cls, sense, threshold)
         IN  IF i = 0 THEN Append(cls, sense)
             ELSE [cls EXCEPT ![i] = MergeInto(cls[i], sense)]

\* the whole loop
RECURSIVE ClusterAll(_, _)
ClusterAll(processed, threshold) ==
    IF processed = <<>> THEN <<>>
    ELSE ClusterStep(ClusterAll(SubSeq(processed, 1, Len(processed) - 1), threshold),
                     processed[Len(processed)], threshold)

\* Array.prototype.slice(from, to) for non-negative from and to
Slice(seq, from, to) == SubSeq(seq, from + 1, Min(to, Len(seq)))

\* additionalSenses is absent from the result, null, or a list
Absent == [kind |-> "absent", items |-> <<>>]
Null == [kind |-> "null", items |-> <<>>]
List(items) == [kind |-> "list", items |-> items]

\* { senses: [], hasMore: false }
EmptyClustering == [senses |-> <<>>, additionalSenses |-> Absent, hasMore |-> FALSE]

\* the clusters left in the order the loop created them
FinalSensesUnsorted(cls) == cls

\* step 3, line 276: the clusters sorted again, now by their merged synonymCount
FinalSenses(cls) == SortBySynonymCount(cls)

\* the split with the overflow slice starting one place late
PaginateLate(finalSenses, primary, maxTotal) ==
    IF Len(finalSenses) = 0 THEN EmptyClustering
    ELSE IF Len(finalSenses) <= primary
    THEN [senses |-> finalSenses, additionalSenses |-> Absent, hasMore |-> FALSE]
    ELSE LET primarySenses == Slice(finalSenses, 0, primary)
             additional == Slice(finalSenses, primary + 1, maxTotal)
         IN  [senses |-> primarySenses,
              additionalSenses |-> IF Len(additional) > 0 THEN List(additional) ELSE Null,
              hasMore |-> Len(additional) > 0]

\* the split with hasMore told from the number of clusters, not from the slice
PaginateHasMoreByCount(finalSenses, primary, maxTotal) ==
    IF Len(finalSenses) = 0 THEN EmptyClustering
    ELSE IF Len(finalSenses) <= primary
    THEN [senses |-> finalSenses, additionalSenses |-> Absent, hasMore |-> FALSE]
    ELSE LET primarySenses == Slice(finalSenses, 0, primary)
             additional == Slice(finalSenses, primary, maxTotal)
         IN  [senses |-> primarySenses,
              additionalSenses |-> IF Len(additional) > 0 THEN List(additional) ELSE Null,
              hasMore |-> Len(finalSenses) > primary]

\* the split with an overflow slice that runs to the last cluster
PaginateNoCap(finalSenses, primary, maxTotal) ==
    IF Len(finalSenses) = 0 THEN EmptyClustering
    ELSE IF Len(finalSenses) <= primary
    THEN [senses |-> finalSenses, additionalSenses |-> Absent, hasMore |-> FALSE]
    ELSE LET primarySenses == Slice(finalSenses, 0, primary)
             additional == Slice(finalSenses, primary, Len(finalSenses))
         IN  [senses |-> primarySenses,
              additionalSenses |-> IF Len(additional) > 0 THEN List(additional) ELSE Null,
              hasMore |-> Len(additional) > 0]

\* step 4, lines 278-290
Paginate(finalSenses, primary, maxTotal) ==
    IF Len(finalSenses) = 0 THEN EmptyClustering
    ELSE IF Len(finalSenses) <= primary
    THEN [senses |-> finalSenses, additionalSenses |-> Absent, hasMore |-> FALSE]
    ELSE LET primarySenses == Slice(finalSenses, 0, primary)
             additional == Slice(finalSenses, primary, maxTotal)
         IN  [senses |-> primarySenses,
              additionalSenses |-> IF Len(additional) > 0 THEN List(additional) ELSE Null,
              hasMore |-> Len(additional) > 0]

processSensesWithClustering(raw, primary, maxTotal, threshold) ==
    Paginate(FinalSenses(ClusterAll(SortBySynonymCount(MapProcess(raw)), threshold)),
             primary, maxTotal)

----------------------------------------------------------------------------
(* Values of the handler *)

Reqs == 1..NumReqs

\* the value of a body field, an environment variable or a local that was never set
Undefined == "<undefined>"
\* !x for a string or undefined
Falsy(x) == x = Undefined \/ x = ""

NoValue == [hub_word |-> Undefined, part_of_speech |-> Undefined, answers |-> <<>>]
NoResponse == [statusCode |-> 0, body |-> [kind |-> "none"]]
NoBody == [kind |-> "absent", word |-> Undefined, partOfSpeech |-> Undefined,
           category |-> Undefined, hasSynonyms |-> FALSE, synonyms |-> <<>>]

\* an invocation that has not started
FreshInv ==
    [pc |-> "start", store |-> FALSE, path |-> "none", synonyms |-> <<>>, model |-> 0,
     apiResponse |-> NoValue, data |-> <<>>, processedSenses |-> EmptyClustering,
     response |-> NoResponse,
     thesaurusCalls |-> 0, cacheGets |-> 0, cacheSets |-> 0, gatewayCalls |-> 0,
     modelsTried |-> <<>>, lookup |-> "none", cacheRead |-> "none", cacheWrite |-> "none"]

HandlerIdle ==
    /\ env = [MW_THESAURUS_API_KEY |-> FALSE, OPENROUTER_API_KEY |-> FALSE]
    /\ cache = <<>>
    /\ event = [r \in Reqs |-> [httpMethod |-> "GET", body |-> NoBody]]
    /\ inv = [r \in Reqs |-> [FreshInv EXCEPT !.pc = "idle"]]

----------------------------------------------------------------------------
(* The normaliser and the scorer applied to chosen strings *)

NoFrac == Frac(0, 1)

StrIdle ==
    /\ str1 = <<>> /\ str2 = <<>> /\ cleaned = <<>> /\ recleaned = <<>>
    /\ sim = NoFrac /\ fpc = "idle"

NoPrompt == [template |-> "", partOfSpeech |-> ""]
NoKey == [json |-> <<>>, prompt |-> NoPrompt]
NoPayload == [word |-> "", partOfSpeech |-> "", category |-> "", synonyms |-> <<>>]

KeyIdle ==
    /\ payload1 = NoPayload /\ payload2 = NoPayload
    /\ object1 = <<>> /\ object2 = <<>>
    /\ prompt1 = NoPrompt /\ prompt2 = NoPrompt
    /\ key1 = NoKey /\ key2 = NoKey
    /\ kpc = "idle"

FnIdle == StrIdle /\ KeyIdle

ClusterIdle ==
    /\ allRawSenses = <<>> /\ primarySenseCount = 0 /\ maxTotalSenses = 0
    /\ similarityThreshold = NoFrac /\ processedSenses = <<>> /\ idx = 0
    /\ clusters = <<>> /\ result = EmptyClustering
    /\ cpc = "idle"
    /\ heap = <<>>

NormInit ==
    /\ str1 \in StringsOver(Alphabet, MaxLen)
    /\ str2 = <<>> /\ cleaned = <<>> /\ recleaned = <<>> /\ sim = NoFrac
    /\ fpc = "input"
    /\ KeyIdle
    /\ ClusterIdle
    /\ HandlerIdle

\* cleanDefinition(str1)
Normalize ==
    /\ fpc = "input"
    /\ cleaned' = cleanDefinition(str1)
    /\ fpc' = "once"
    /\ UNCHANGED <<str1, str2, recleaned, sim, keyVars, clusterVars, handlerVars>>

\* cleanDefinition applied to its own result
Renormalize ==
    /\ fpc = "once"
    /\ recleaned' = cleanDefinition(cleaned)
    /\ fpc' = "twice"
    /\ UNCHANGED <<str1, str2, cleaned, sim, keyVars, clusterVars, handlerVars>>

NormNext == Normalize \/ Renormalize

SpecNorm == NormInit /\ [][NormNext]_vars

SimInit ==
    /\ str1 \in StringsOver(SimAlphabet, MaxSimLen)
    /\ str2 \in StringsOver(SimAlphabet, MaxSimLen)
    /\ cleaned = <<>> /\ recleaned = <<>> /\ sim = NoFrac
    /\ fpc = "input"
    /\ KeyIdle
    /\ ClusterIdle
    /\ HandlerIdle

\* calculateSimilarity(str1, str2)
Score ==
    /\ fpc = "input"
    /\ sim' = calculateSimilarity(str1, str2)
    /\ fpc' = "scored"
    /\ UNCHANGED <<str1, str2, cleaned, recleaned, keyVars, clusterVars, handlerVars>>

SimNext == Score

SpecSim == SimInit /\ [][SimNext]_vars

----------------------------------------------------------------------------
(* One call of processSensesWithClustering, statement by statement *)

Str_ab == <<"a", " ", "b">>
Str_Abcd == <<"A", " ", "b", " ", "c", ";", " ", "d">>
Str_a == <<"a">>
Str_c == <<":", " ", "c">>
Str_markup == <<"{", "x", "}">>
Str_comma == <<",", "a">>
Str_long == <<"a", " ", "b", ",", " ", "c", " ", "d", " ", "e">>

Raw(d, syns) == [definition |-> d, synonyms |-> syns]

\* the raw senses the thesaurus reply is drawn from
RawPool ==
    { Raw(Str_ab, <<"x", "y">>),
      Raw(Str_Abcd, <<"z">>),
      Raw(Str_a, <<"y">>),
      Raw(Str_c, <<"z">>),
      Raw(Str_markup, <<"w", "w">>),
      Raw(Str_comma, <<"x">>),
      Raw(Str_ab, <<>>),
      Raw(Str_long, <<>>) }

\* the default threshold (line 235) and one no similarity exceeds
DefaultThreshold == Frac(1, 2)
Thresholds == {DefaultThreshold, Frac(1, 1)}

ClusterInit ==
    /\ allRawSenses \in UNION {[1..k -> RawPool] : k \in 0..MaxSenses}
    /\ primarySenseCount \in 0..MaxPrimary
    /\ maxTotalSenses \in 0..MaxTotal
    /\ similarityThreshold \in Thresholds
    /\ processedSenses = <<>> /\ idx = 0 /\ clusters = <<>>
    /\ result = EmptyClustering
    /\ cpc = "start"
    /\ heap = <<>>
    /\ FnIdle
    /\ HandlerIdle

\* the parameters processSensesWithClustering falls back to, lines 233-235
DefaultPrimarySenseCount == 3
DefaultMaxTotalSenses == 8

\* definitions that share no word with one another: "a", "aa", "aaa", ...
DistinctDefinition(i) == [j \in 1..i |-> "a"]

SynonymNames == <<"s1", "s2", "s3", "s4", "s5", "s6", "s7", "s8", "s9", "s10", "s11", "s12">>

\* sense i of a long reply: one synonym, or two for every (q+1)-th sense
DistinctSense(i, q) ==
    Raw(DistinctDefinition(i),
        IF q > 0 /\ i % (q + 1) = 0 THEN <<SynonymNames[i], "t">> ELSE <<SynonymNames[i]>>)

\* replies of up to MaxDistinct senses no two of which are similar
DistinctInputs == {[i \in 1..k |-> DistinctSense(i, q)] : k \in 0..MaxDistinct, q \in 0..3}

\* a call that leaves the three optional parameters to their defaults
ClusterInitDefaults ==
    /\ allRawSenses \in DistinctInputs
    /\ primarySenseCount = DefaultPrimarySenseCount
    /\ maxTotalSenses = DefaultMaxTotalSenses
    /\ similarityThreshold = DefaultThreshold
    /\ processedSenses = <<>> /\ idx = 0 /\ clusters = <<>>
    /\ result = EmptyClustering
    /\ cpc = "start"
    /\ heap = <<>>
    /\ FnIdle
    /\ HandlerIdle

Str_abcd == <<"a", " ", "b", " ", "c", " ", "d">>
Str_abc == <<"a", " ", "b", " ", "c">>

\* replies in which a sense is similar to two clusters, and more so to the later
CloseInputs ==
    { <<Raw(Str_ab, <<"x", "y">>), Raw(Str_abcd, <<"z">>), Raw(Str_abc, <<"w">>)>>,
      <<Raw(Str_abc, <<"w">>), Raw(Str_abcd, <<"z">>), Raw(Str_ab, <<"x", "y">>)>> }

ClusterInitClose ==
    /\ allRawSenses \in CloseInputs
    /\ primarySenseCount = DefaultPrimarySenseCount
    /\ maxTotalSenses = DefaultMaxTotalSenses
    /\ similarityThreshold = DefaultThreshold
    /\ processedSenses = <<>> /\ idx = 0 /\ clusters = <<>>
    /\ result = EmptyClustering
    /\ cpc = "start"
    /\ heap = <<>>
    /\ FnIdle
    /\ HandlerIdle

ClusterInitAll == ClusterInit \/ ClusterInitDefaults \/ ClusterInitClose

\* step 1 without the sort: the senses are offered in the order of the reply
PreprocessUnsorted ==
    /\ cpc = "start"
    /\ processedSenses' = MapProcess(allRawSenses)
    /\ idx' = 1
    /\ clusters' = <<>>
    /\ cpc' = "loop"
    /\ UNCHANGED <<allRawSenses, primarySenseCount, maxTotalSenses, similarityThreshold,
                   result, heap, fnVars, handlerVars>>

\* step 1, lines 238-244
Preprocess ==
    /\ cpc = "start"
    /\ processedSenses' = SortBySynonymCount(MapProcess(allRawSenses))
    /\ idx' = 1
    /\ clusters' = <<>>
    /\ cpc' = "loop"
    /\ UNCHANGED <<allRawSenses, primarySenseCount, maxTotalSenses, similarityThreshold,
                   result, heap, fnVars, handlerVars>>

\* one iteration of the loop of step 2, lines 248-273
LoopBody ==
    /\ cpc = "loop"
    /\ idx <= Len(processedSenses)
    /\ clusters' = ClusterStep(clusters, processedSenses[idx], similarityThreshold)
    /\ idx' = idx + 1
    /\ UNCHANGED <<allRawSenses, primarySenseCount, maxTotalSenses, similarityThreshold,
                   processedSenses, result, cpc, heap, fnVars, handlerVars>>

\* steps 3 and 4, lines 276-290
SortAndReturn ==
    /\ cpc = "loop"
    /\ idx > Len(processedSenses)
    /\ clusters' = FinalSenses(clusters)
    /\ result' = Paginate(FinalSenses(clusters), primarySenseCount, maxTotalSenses)
    /\ cpc' = "done"
    /\ UNCHANGED <<allRawSenses, primarySenseCount, maxTotalSenses, similarityThreshold,
                   processedSenses, idx, heap, fnVars, handlerVars>>

ClusterNext == Preprocess \/ LoopBody \/ SortAndReturn

SpecCluster == ClusterInitAll /\ [][ClusterNext]_vars

----------------------------------------------------------------------------
(* processSensesWithClustering on a heap. Objects and arrays live at addresses;
   the synonyms property of a sense or cluster holds the address of an array,
   so that a copy made by {...sense} shares the array of the sense it copies.
   allRawSenses, processedSenses and clusters hold addresses of objects. *)

\* an object with the properties of a sense; a raw sense has no cleanDef and no
\* synonymCount, which are kept empty and 0
Object(definition, synonyms, cleanDef, synonymCount) ==
    [kind |-> "object", definition |-> definition, synonyms |-> synonyms,
     cleanDef |-> cleanDef, synonymCount |-> synonymCount, items |-> <<>>]
Array(items) ==
    [kind |-> "array", definition |-> <<>>, synonyms |-> 0,
     cleanDef |-> <<>>, synonymCount |-> 0, items |-> items]

\* object.synonyms, dereferenced
ItemsOf(h, object) == h[h[object].synonyms].items
\* the object as a value
ViewOf(h, object) ==
    [definition |-> h[object].definition, synonyms |-> ItemsOf(h, object),
     cleanDef |-> h[object].cleanDef, synonymCount |-> h[object].synonymCount]
ViewsOf(h, objects) == [i \in 1..Len(objects) |-> ViewOf(h, objects[i])]
\* a raw sense as the caller reads it
RawViewsOf(h, objects) ==
    [i \in 1..Len(objects) |-> Raw(h[objects[i]].definition, ItemsOf(h, objects[i]))]

\* the caller's array of raw senses: sense i at address i, its synonyms array at k + i
HeapOfInput(raw) ==
    LET k == Len(raw)
    IN  [a \in 1..(2 * k) |->
            IF a <= k THEN Object(raw[a].definition, k + a, <<>>, 0)
            ELSE Array(raw[a - k].synonyms)]

\* lines 238-243: .map allocates one object per sense; the spread copies the
\* definition and the address of the synonyms array
MapSenses(h, input) ==
    h \o [i \in 1..Len(input) |->
             Object(h[input[i]].definition, h[input[i]].synonyms,
                    cleanDefinition(h[input[i]].definition), Len(ItemsOf(h, input[i])))]

\* .sort((a, b) => b.synonymCount - a.synonymCount) on an array of addresses
SortRefs(h, refs) ==
    LET tagged == [i \in 1..Len(refs) |->
                      [ref |-> refs[i], synonymCount |-> h[refs[i]].synonymCount]]
        sorted == SortBySynonymCount(tagged)
    IN  [i \in 1..Len(refs) |-> sorted[i].ref]

\* the merge that adds the synonyms to the array the cluster holds
HeapMergeInPlace(h, cluster, sense) ==
    LET combinedSynonyms == Dedup(ItemsOf(h, cluster) \o ItemsOf(h, sense))
        longer == Len(h[sense].definition) > Len(h[cluster].definition)
    IN  [h EXCEPT ![h[cluster].synonyms] = Array(combinedSynonyms),
                  ![cluster] =
                      [@ EXCEPT !.synonymCount = Len(combinedSynonyms),
                                !.definition = IF longer THEN h[sense].definition ELSE @,
                                !.cleanDef = IF longer THEN h[sense].cleanDef ELSE @]]

\* lines 255-263: Array.from allocates the merged array, the cluster object is
\* assigned to
HeapMerge(h, cluster, sense) ==
    LET combinedSynonyms == Dedup(ItemsOf(h, cluster) \o ItemsOf(h, sense))
        longer == Len(h[sense].definition) > Len(h[cluster].definition)
    IN  Append([h EXCEPT ![cluster] =
                   [@ EXCEPT !.synonyms = Len(h) + 1,
                             !.synonymCount = Len(combinedSynonyms),
                             !.definition = IF longer THEN h[sense].definition ELSE @,
                             !.cleanDef = IF longer THEN h[sense].cleanDef ELSE @]],
               Array(combinedSynonyms))

\* line 271: { ...sense } allocates the cluster as a copy of the sense
HeapSeed(h, sense) == Append(h, h[sense])

\* the senses a reply is made of here
AliasPool ==
    { Raw(Str_ab, <<"x", "y">>), Raw(Str_abc, <<"w">>), Raw(Str_a, <<"y">>),
      Raw(Str_ab, <<>>) }

AliasInit ==
    /\ \E raw \in UNION {[1..k -> AliasPool] : k \in 0..MaxSenses} :
           /\ heap = HeapOfInput(raw)
           /\ allRawSenses = [i \in 1..Len(raw) |-> i]
    /\ primarySenseCount = DefaultPrimarySenseCount
    /\ maxTotalSenses = DefaultMaxTotalSenses
    /\ similarityThreshold = DefaultThreshold
    /\ processedSenses = <<>> /\ idx = 0 /\ clusters = <<>>
    /\ result = EmptyClustering
    /\ cpc = "start"
    /\ FnIdle
    /\ HandlerIdle

\* step 1, lines 238-244
AliasPreprocess ==
    /\ cpc = "start"
    /\ heap' = MapSenses(heap, allRawSenses)
    /\ processedSenses' =
           SortRefs(heap', [i \in 1..Len(allRawSenses) |-> Len(heap) + i])
    /\ idx' = 1
    /\ clusters' = <<>>
    /\ cpc' = "loop"
    /\ UNCHANGED <<allRawSenses, primarySenseCount, maxTotalSenses, similarityThreshold,
                   result, fnVars, handlerVars>>

\* one iteration of the loop of step 2, lines 248-273
AliasLoopBody ==
    /\ cpc = "loop"
    /\ idx <= Len(processedSenses)
    /\ LET sense == processedSenses[idx]
           i == FirstMatch([c \in 1..Len(clusters) |-> heap[clusters[c]]], heap[sense],
                           similarityThreshold)
       IN  IF heap[sense].synonymCount = 0 THEN UNCHANGED <<heap, clusters>>
           ELSE IF i = 0
           THEN /\ heap' = HeapSeed(heap, sense)
                /\ clusters' = Append(clusters, Len(heap) + 1)
           ELSE /\ heap' = HeapMerge(heap, clusters[i], sense)
                /\ UNCHANGED clusters
    /\ idx' = idx + 1
    /\ UNCHANGED <<allRawSenses, primarySenseCount, maxTotalSenses, similarityThreshold,
                   processedSenses, result, cpc, fnVars, handlerVars>>

\* steps 3 and 4, lines 276-290: clusters is sorted in place, the result holds
\* the cluster objects
AliasSortAndReturn ==
    /\ cpc = "loop"
    /\ idx > Len(processedSenses)
    /\ clusters' = SortRefs(heap, clusters)
    /\ result' = Paginate(ViewsOf(heap, SortRefs(heap, clusters)),
                          primarySenseCount, maxTotalSenses)
    /\ cpc' = "done"
    /\ UNCHANGED <<allRawSenses, primarySenseCount, maxTotalSenses, similarityThreshold,
                   processedSenses, idx, heap, fnVars, handlerVars>>

AliasNext == AliasPreprocess \/ AliasLoopBody \/ AliasSortAndReturn

SpecAlias == AliasInit /\ [][AliasNext]_vars

----------------------------------------------------------------------------
(* Prompts, cache keys and the thesaurus reply *)

\* getLLMPrompt: the system prompt embeds partOfSpeech; the user prompt embeds the
\* word, partOfSpeech, the synonyms and, when truthy, the category
getLLMPrompt(word, partOfSpeech, category, synonyms) ==
    [systemPrompt |-> [template |-> "classify", partOfSpeech |-> partOfSpeech],
     userPrompt   |-> [word |-> word, partOfSpeech |-> partOfSpeech, synonyms |-> synonyms,
                       focus |-> IF Falsy(category) THEN Undefined ELSE category]]

\* JSON values of the payload fields
JsString(v) == [type |-> "string", str |-> v, arr |-> <<>>]
JsArray(a) == [type |-> "array", str |-> "", arr |-> a]
JsUndefined == [type |-> "undefined", str |-> "", arr |-> <<>>]
JsOf(v) == IF v = Undefined THEN JsUndefined ELSE JsString(v)

\* the property names in the order Array.prototype.sort puts them
SortedNames == <<"a", "b", "category", "partOfSpeech", "synonyms", "word">>
NameRank(k) == CHOOSE i \in 1..Len(SortedNames) : SortedNames[i] = k

\* Object.keys(object).sort().reduce(...): the properties ordered by name
RECURSIVE InsertByName(_, _)
InsertByName(sorted, kv) ==
    IF sorted = <<>> THEN <<kv>>
    ELSE IF NameRank(sorted[1][1]) <= NameRank(kv[1])
         THEN <<sorted[1]>> \o InsertByName(Tail(sorted), kv)
         ELSE <<kv>> \o sorted

\* the properties left in insertion order
SortByNameInsertionOrder(object) == object

RECURSIVE SortByName(_)
SortByName(object) ==
    IF object = <<>> THEN <<>>
    ELSE InsertByName(SortByName(SubSeq(object, 1, Len(object) - 1)), object[Len(object)])

\* JSON.stringify(object): the properties in order, those with value undefined left out
IsDefined(kv) == kv[2].type # "undefined"
Stringify(object) == SelectSeq(object, IsDefined)

\* the key of the payload alone
generateCacheKeyPayloadOnly(object, prompt) ==
    [json |-> Stringify(SortByName(object)), prompt |-> [template |-> "", partOfSpeech |-> ""]]

\* generateCacheKey; the digest stands for the string it was computed from
generateCacheKey(object, prompt) ==
    [json |-> Stringify(SortByName(object)), prompt |-> prompt]

\* the key derived from a payload that leaves the synonyms out
CacheKeyOfWithoutSynonyms(word, partOfSpeech, category, synonyms) ==
    generateCacheKey(<< <<"word", JsOf(word)>>, <<"partOfSpeech", JsOf(partOfSpeech)>>,
                        <<"category", JsOf(category)>> >>,
                     getLLMPrompt(word, partOfSpeech, category, synonyms).systemPrompt)

\* the key getCachedLlmResponse derives, lines 317-318
CacheKeyOf(word, partOfSpeech, category, synonyms) ==
    generateCacheKey(<< <<"word", JsOf(word)>>, <<"partOfSpeech", JsOf(partOfSpeech)>>,
                        <<"category", JsOf(category)>>, <<"synonyms", JsArray(synonyms)>> >>,
                     getLLMPrompt(word, partOfSpeech, category, synonyms).systemPrompt)

\* the object literal of line 318, in the order its properties are written
PayloadObject(payload) ==
    << <<"word", JsOf(payload.word)>>, <<"partOfSpeech", JsOf(payload.partOfSpeech)>>,
       <<"category", JsOf(payload.category)>>, <<"synonyms", JsArray(payload.synonyms)>> >>

\* objects of up to MaxKeys properties, in every insertion order
PropertyNames == {"a", "b", "word"}
PropertyValues == {JsString("1"), JsString("2"), JsUndefined}
Objects ==
    {o \in UNION {[1..k -> PropertyNames \X PropertyValues] : k \in 0..MaxKeys} :
        \A i, j \in 1..Len(o) : o[i][1] = o[j][1] => i = j}

\* prompt texts: two wordings, each for two parts of speech
PromptTexts ==
    {[template |-> t, partOfSpeech |-> p] :
        t \in {"classify", "classify, revised"}, p \in {"adjective", "noun"}}

\* the payloads getCachedLlmResponse is called with
Payloads ==
    [word : {"hot", "heat"}, partOfSpeech : {"adjective", "noun"},
     category : {Undefined, "", "Formality"},
     synonyms : {<<"x">>, <<"x", "y">>, <<"y", "x">>}]

\* generateCacheKey is given two objects and two prompts
KeyInitObjects ==
    /\ object1 \in Objects /\ object2 \in Objects
    /\ prompt1 \in PromptTexts /\ prompt2 \in PromptTexts
    /\ payload1 = NoPayload /\ payload2 = NoPayload
    /\ key1 = NoKey /\ key2 = NoKey
    /\ kpc = "objects"
    /\ StrIdle /\ ClusterIdle /\ HandlerIdle

\* getCachedLlmResponse is called with two payloads
KeyInitPayloads ==
    /\ payload1 \in Payloads /\ payload2 \in Payloads
    /\ object1 = <<>> /\ object2 = <<>>
    /\ prompt1 = NoPrompt /\ prompt2 = NoPrompt
    /\ key1 = NoKey /\ key2 = NoKey
    /\ kpc = "payloads"
    /\ StrIdle /\ ClusterIdle /\ HandlerIdle

KeyInit == KeyInitObjects \/ KeyInitPayloads

\* lines 160-169 for each object
DeriveKeys ==
    /\ kpc = "objects"
    /\ key1' = generateCacheKey(object1, prompt1)
    /\ key2' = generateCacheKey(object2, prompt2)
    /\ kpc' = "objectKeys"
    /\ UNCHANGED <<payload1, payload2, object1, object2, prompt1, prompt2,
                   str1, str2, cleaned, recleaned, sim, fpc, clusterVars, handlerVars>>

\* lines 317-318 for each payload
DerivePayloadKeys ==
    /\ kpc = "payloads"
    /\ prompt1' = getLLMPrompt(payload1.word, payload1.partOfSpeech, payload1.category,
                               payload1.synonyms).systemPrompt
    /\ prompt2' = getLLMPrompt(payload2.word, payload2.partOfSpeech, payload2.category,
                               payload2.synonyms).systemPrompt
    /\ object1' = PayloadObject(payload1)
    /\ object2' = PayloadObject(payload2)
    /\ key1' = CacheKeyOf(payload1.word, payload1.partOfSpeech, payload1.category,
                          payload1.synonyms)
    /\ key2' = CacheKeyOf(payload2.word, payload2.partOfSpeech, payload2.category,
                          payload2.synonyms)
    /\ kpc' = "payloadKeys"
    /\ UNCHANGED <<payload1, payload2,
                   str1, str2, cleaned, recleaned, sim, fpc, clusterVars, handlerVars>>

KeyNext == DeriveKeys \/ DerivePayloadKeys

SpecKey == KeyInit /\ [][KeyNext]_vars

\* modelsToTry.length, line 296
NumModels == 5

\* what a model can answer to a prompt: a classification whose hub_word and
\* part_of_speech the model chose itself
LlmWords == {"hot", "heat"}
LlmTags == {"adjective", "adj."}
LlmAnswers(prompts) ==
    {[hub_word |-> w, part_of_speech |-> t, answers |-> prompts] :
        w \in LlmWords, t \in LlmTags}

\* .slice(0, 25), line 385
MaxSynonyms == 25

\* lines 378-388: the senses of the entries of the requested part of speech
RECURSIVE FlatMapEntries(_, _)
FlatMapEntries(data, partOfSpeech) ==
    IF data = <<>> THEN <<>>
    ELSE LET entry == data[1]
             senses == IF entry.fl # partOfSpeech \/ ~entry.hasDef THEN <<>>
                       ELSE [i \in 1..Len(entry.sseq) |->
                                [definition |-> entry.sseq[i].definition,
                                 synonyms   |-> Slice(entry.sseq[i].synonyms, 0, MaxSynonyms)]]
         IN  senses \o FlatMapEntries(Tail(data), partOfSpeech)

Entry(fl, sseq) == [fl |-> fl, hasDef |-> TRUE, sseq |-> sseq]

\* the entries thesaurus replies are made of
EntryPool ==
    { Entry("adjective", <<Raw(Str_ab, <<"x", "y">>)>>),
      Entry("adjective", <<Raw(Str_Abcd, <<"z">>), Raw(Str_c, <<"z">>)>>),
      Entry("adjective", <<Raw(Str_long, <<>>)>>),
      Entry("noun", <<Raw(Str_a, <<"y">>)>>),
      [fl |-> "adjective", hasDef |-> FALSE, sseq |-> <<>>] }

\* four senses no two of which are similar
FourSenses ==
    <<Entry("adjective", <<Raw(Str_ab, <<"x", "y">>), Raw(Str_a, <<"y">>),
                           Raw(Str_c, <<"z">>), Raw(Str_markup, <<"w", "w">>)>>)>>

\* the non-empty arrays of entry objects the thesaurus replies with
ThesaurusReplies ==
    UNION {[1..k -> EntryPool] : k \in 1..MaxEntries} \cup {FourSenses}

----------------------------------------------------------------------------
(* exports.handler, lines 343-423, one action per stretch between two awaits *)

ErrorBody(message) == [kind |-> "error", error |-> message]
ServerError(cause) == ErrorBody(<<"Server error: ", cause>>)

\* return { statusCode, headers, body }
Returned(i, statusCode, body) ==
    [i EXCEPT !.pc = "done", !.response = [statusCode |-> statusCode, body |-> body]]

\* the classification returned as the gateway or the cache gave it
ReturnedAsAnswered(i, body, apiResponse) ==
    Returned([i EXCEPT !.apiResponse = apiResponse], 200,
             [kind |-> "classification", value |-> apiResponse])

\* lines 362-363 and 407-409: hub_word and part_of_speech are overwritten
ReturnedClassification(i, body, apiResponse) ==
    Returned([i EXCEPT !.apiResponse = apiResponse], 200,
             [kind |-> "classification",
              value |-> [apiResponse EXCEPT !.hub_word = body.word,
                                            !.part_of_speech = body.partOfSpeech]])

\* the gateway entered without the test of the credential
EnterGatewayUnchecked(i) ==
    [i EXCEPT !.pc = "awaitModel", !.model = 1, !.modelsTried = <<1>>,
              !.gatewayCalls = @ + 1]

\* callOpenRouterWithFallback up to its first fetch, lines 293-300
EnterGateway(i) ==
    IF ~env.OPENROUTER_API_KEY
    THEN Returned([i EXCEPT !.gatewayCalls = @ + 1], 500,
                  ServerError("OpenRouter API key is not configured."))
    ELSE [i EXCEPT !.pc = "awaitModel", !.model = 1, !.modelsTried = <<1>>,
                   !.gatewayCalls = @ + 1]

\* the classification started with the synonyms of the request body, whatever
\* list it was called for
EnterClassificationStaleSynonyms(i, synonyms, path) ==
    LET j == [i EXCEPT !.path = path]
    IN  IF j.store THEN [j EXCEPT !.pc = "awaitCacheGet", !.cacheGets = @ + 1]
        ELSE EnterGateway(j)

\* lines 358-361 and 401-406 up to the first await: through the cache when there
\* is a store, straight to the gateway when there is none
EnterClassification(i, synonyms, path) ==
    LET j == [i EXCEPT !.synonyms = synonyms, !.path = path]
    IN  IF j.store THEN [j EXCEPT !.pc = "awaitCacheGet", !.cacheGets = @ + 1]
        ELSE EnterGateway(j)

Body(r) == event[r].body
BodyParses(r) == Body(r).kind # "malformed"
\* the body is the JSON text null: JSON.parse returns null
BodyIsNull(r) == Body(r).kind = "null"
FieldsGiven(r) == ~Falsy(Body(r).word) /\ ~Falsy(Body(r).partOfSpeech)
\* the routing test without the length: any list, an empty one too, counts as given
SynonymsGivenAnyList(r) == Body(r).hasSynonyms
SynonymsGiven(r) == Body(r).hasSynonyms /\ Len(Body(r).synonyms) > 0
KeyOfInv(r) ==
    CacheKeyOf(Body(r).word, Body(r).partOfSpeech, Body(r).category, inv[r].synonyms)
PromptsOfInv(r) ==
    getLLMPrompt(Body(r).word, Body(r).partOfSpeech, Body(r).category, inv[r].synonyms)

\* line 345
RespondOptions(r) ==
    /\ inv[r].pc = "start"
    /\ event[r].httpMethod = "OPTIONS"
    /\ inv' = [inv EXCEPT ![r] = Returned(@, 200, [kind |-> "empty"])]
    /\ UNCHANGED <<env, cache, event, fnVars, clusterVars>>

\* line 346
RespondMethodNotAllowed(r) ==
    /\ inv[r].pc = "start"
    /\ event[r].httpMethod \notin {"OPTIONS", "POST"}
    /\ inv' = [inv EXCEPT ![r] = Returned(@, 405, ErrorBody(<<"Method Not Allowed">>))]
    /\ UNCHANGED <<env, cache, event, fnVars, clusterVars>>

\* line 349 throws, lines 419-422 catch
RespondParseError(r) ==
    /\ inv[r].pc = "start"
    /\ event[r].httpMethod = "POST"
    /\ ~BodyParses(r)
    /\ inv' = [inv EXCEPT ![r] = Returned(@, 500, ServerError("Unexpected token in JSON"))]
    /\ UNCHANGED <<env, cache, event, fnVars, clusterVars>>

\* line 350 throws: null cannot be destructured; lines 419-422 catch
RespondNullBody(r) ==
    /\ inv[r].pc = "start"
    /\ event[r].httpMethod = "POST"
    /\ BodyIsNull(r)
    /\ inv' = [inv EXCEPT ![r] =
                  Returned(@, 500,
                           ServerError("Cannot destructure property 'word' of 'body' as it is null."))]
    /\ UNCHANGED <<env, cache, event, fnVars, clusterVars>>

\* line 352
RespondMissingFields(r) ==
    /\ inv[r].pc = "start"
    /\ event[r].httpMethod = "POST"
    /\ BodyParses(r) /\ ~BodyIsNull(r)
    /\ ~FieldsGiven(r)
    /\ inv' = [inv EXCEPT ![r] =
                  Returned(@, 400, ErrorBody(<<"Word and Part of Speech are required.">>))]
    /\ UNCHANGED <<env, cache, event, fnVars, clusterVars>>

\* lines 354-361: getStore succeeds or throws, then the direct classification starts
StartClassification(r) ==
    /\ inv[r].pc = "start"
    /\ event[r].httpMethod = "POST"
    /\ BodyParses(r) /\ FieldsGiven(r)
    /\ SynonymsGiven(r)
    /\ \E storeOk \in BOOLEAN :
           inv' = [inv EXCEPT ![r] =
                      EnterClassification([@ EXCEPT !.store = storeOk],
                                          Body(r).synonyms, "direct")]
    /\ UNCHANGED <<env, cache, event, fnVars, clusterVars>>

\* lines 366-367
RespondMissingThesaurusKey(r) ==
    /\ inv[r].pc = "start"
    /\ event[r].httpMethod = "POST"
    /\ BodyParses(r) /\ FieldsGiven(r)
    /\ ~SynonymsGiven(r)
    /\ ~env.MW_THESAURUS_API_KEY
    /\ \E storeOk \in BOOLEAN :
           inv' = [inv EXCEPT ![r] =
                      Returned([@ EXCEPT !.store = storeOk], 500,
                               ErrorBody(<<"Merriam-Webster API key is not configured.">>))]
    /\ UNCHANGED <<env, cache, event, fnVars, clusterVars>>

\* lines 369-370: the thesaurus is asked
StartDiscovery(r) ==
    /\ inv[r].pc = "start"
    /\ event[r].httpMethod = "POST"
    /\ BodyParses(r) /\ FieldsGiven(r)
    /\ ~SynonymsGiven(r)
    /\ env.MW_THESAURUS_API_KEY
    /\ \E storeOk \in BOOLEAN :
           inv' = [inv EXCEPT ![r] =
                      [@ EXCEPT !.store = storeOk, !.pc = "awaitThesaurus",
                                !.thesaurusCalls = @ + 1]]
    /\ UNCHANGED <<env, cache, event, fnVars, clusterVars>>

\* the failed lookup answered as a word that was not found
ThesaurusFailsAsNotFound(r) ==
    /\ inv[r].pc = "awaitThesaurus"
    /\ inv' = [inv EXCEPT ![r] =
                  Returned([@ EXCEPT !.lookup = "failed"], 404,
                           ErrorBody(<<"No entries found for", Body(r).word>>))]
    /\ UNCHANGED <<env, cache, event, fnVars, clusterVars>>

\* the failed lookup is tried a second time
ThesaurusFailsRetries(r) ==
    /\ inv[r].pc = "awaitThesaurus"
    /\ inv[r].thesaurusCalls < 2
    /\ inv' = [inv EXCEPT ![r] = [@ EXCEPT !.thesaurusCalls = @ + 1]]
    /\ UNCHANGED <<env, cache, event, fnVars, clusterVars>>

\* fetch rejects, or line 371 throws on a reply that is not OK
ThesaurusFails(r) ==
    /\ inv[r].pc = "awaitThesaurus"
    /\ \E cause \in {"MW API request failed: 500", "request to dictionaryapi.com failed"} :
           inv' = [inv EXCEPT ![r] =
                      Returned([@ EXCEPT !.lookup = "failed"], 500, ServerError(cause))]
    /\ UNCHANGED <<env, cache, event, fnVars, clusterVars>>

\* lines 374-376: the reply is no non-empty array of entry objects
ThesaurusNoEntries(r) ==
    /\ inv[r].pc = "awaitThesaurus"
    /\ inv' = [inv EXCEPT ![r] =
                  Returned([@ EXCEPT !.lookup = "noEntries"], 404,
                           ErrorBody(<<"No entries found for", Body(r).word>>))]
    /\ UNCHANGED <<env, cache, event, fnVars, clusterVars>>

\* the clustering called for one primary sense
ClusteringOfOnePrimary(r, data) ==
    processSensesWithClustering(FlatMapEntries(data, Body(r).partOfSpeech),
        1, DefaultMaxTotalSenses, DefaultThreshold)

\* lines 378-391 for the reply data
ClusteringOf(r, data) ==
    processSensesWithClustering(FlatMapEntries(data, Body(r).partOfSpeech),
        DefaultPrimarySenseCount, DefaultMaxTotalSenses, DefaultThreshold)

\* no sense found, answered as a disambiguation without senses
DiscoveryNotFoundEmptyList(r) ==
    /\ inv[r].pc = "awaitThesaurus"
    /\ \E data \in ThesaurusReplies :
           LET processed == ClusteringOf(r, data)
           IN  /\ Len(processed.senses) = 0
               /\ inv' = [inv EXCEPT ![r] =
                             Returned([@ EXCEPT !.lookup = "entries", !.data = data,
                                                !.processedSenses = processed],
                                      200,
                                      [kind |-> "disambiguation",
                                       senses |-> processed.senses,
                                       additionalSenses |-> processed.additionalSenses,
                                       hasMore |-> processed.hasMore])]
    /\ UNCHANGED <<env, cache, event, fnVars, clusterVars>>

\* lines 393-397
DiscoveryNotFound(r) ==
    /\ inv[r].pc = "awaitThesaurus"
    /\ \E data \in ThesaurusReplies :
           LET processed == ClusteringOf(r, data)
           IN  /\ Len(processed.senses) = 0
               /\ inv' = [inv EXCEPT ![r] =
                             Returned([@ EXCEPT !.lookup = "entries", !.data = data,
                                                !.processedSenses = processed],
                                      404,
                                      ErrorBody(<<"No synonyms found for", Body(r).word,
                                                  "as a", Body(r).partOfSpeech>>))]
    /\ UNCHANGED <<env, cache, event, fnVars, clusterVars>>

\* lines 399-406: a single sense, the classification starts with its synonyms
DiscoveryAutoProceed(r) ==
    /\ inv[r].pc = "awaitThesaurus"
    /\ \E data \in ThesaurusReplies :
           LET processed == ClusteringOf(r, data)
           IN  /\ Len(processed.senses) = 1 /\ ~processed.hasMore
               /\ inv' = [inv EXCEPT ![r] =
                             EnterClassification(
                                 [@ EXCEPT !.lookup = "entries", !.data = data,
                                           !.processedSenses = processed],
                                 processed.senses[1].synonyms, "auto")]
    /\ UNCHANGED <<env, cache, event, fnVars, clusterVars>>

\* the disambiguation reply that carries the primary senses only
DiscoveryDisambiguationSensesOnly(r) ==
    /\ inv[r].pc = "awaitThesaurus"
    /\ \E data \in ThesaurusReplies :
           LET processed == ClusteringOf(r, data)
           IN  /\ Len(processed.senses) # 0
               /\ ~(Len(processed.senses) = 1 /\ ~processed.hasMore)
               /\ inv' = [inv EXCEPT ![r] =
                             Returned([@ EXCEPT !.lookup = "entries", !.data = data,
                                                !.processedSenses = processed],
                                      200,
                                      [kind |-> "disambiguation",
                                       senses |-> processed.senses,
                                       additionalSenses |-> Absent,
                                       hasMore |-> FALSE])]
    /\ UNCHANGED <<env, cache, event, fnVars, clusterVars>>

\* lines 412-417
DiscoveryDisambiguation(r) ==
    /\ inv[r].pc = "awaitThesaurus"
    /\ \E data \in ThesaurusReplies :
           LET processed == ClusteringOf(r, data)
           IN  /\ Len(processed.senses) # 0
               /\ ~(Len(processed.senses) = 1 /\ ~processed.hasMore)
               /\ inv' = [inv EXCEPT ![r] =
                             Returned([@ EXCEPT !.lookup = "entries", !.data = data,
                                                !.processedSenses = processed],
                                      200,
                                      [kind |-> "disambiguation",
                                       senses |-> processed.senses,
                                       additionalSenses |-> processed.additionalSenses,
                                       hasMore |-> processed.hasMore])]
    /\ UNCHANGED <<env, cache, event, fnVars, clusterVars>>

\* lines 321-325: store.get finds a value
CacheGetHit(r) ==
    /\ inv[r].pc = "awaitCacheGet"
    /\ KeyOfInv(r) \in DOMAIN cache
    /\ inv' = [inv EXCEPT ![r] =
                  ReturnedClassification([@ EXCEPT !.cacheRead = "hit"], Body(r),
                                         cache[KeyOfInv(r)])]
    /\ UNCHANGED <<env, cache, event, fnVars, clusterVars>>

\* lines 321-331: store.get finds nothing, the gateway is called
CacheGetMiss(r) ==
    /\ inv[r].pc = "awaitCacheGet"
    /\ KeyOfInv(r) \notin DOMAIN cache
    /\ inv' = [inv EXCEPT ![r] = EnterGateway([@ EXCEPT !.cacheRead = "miss"])]
    /\ UNCHANGED <<env, cache, event, fnVars, clusterVars>>

\* lines 326-331: store.get throws, the gateway is called
CacheGetFails(r) ==
    /\ inv[r].pc = "awaitCacheGet"
    /\ inv' = [inv EXCEPT ![r] = EnterGateway([@ EXCEPT !.cacheRead = "error"])]
    /\ UNCHANGED <<env, cache, event, fnVars, clusterVars>>

\* the model fails and the same model is asked again
ModelFailsRetriesSame(r) ==
    /\ inv[r].pc = "awaitModel"
    /\ Len(inv[r].modelsTried) < NumModels
    /\ inv' = [inv EXCEPT ![r] = [@ EXCEPT !.modelsTried = Append(@, inv[r].model)]]
    /\ UNCHANGED <<env, cache, event, fnVars, clusterVars>>

\* lines 305-311: the model fails in one of the four ways and the next one is tried
ModelFails(r) ==
    /\ inv[r].pc = "awaitModel"
    /\ inv[r].model < NumModels
    /\ inv' = [inv EXCEPT ![r] =
                  [@ EXCEPT !.model = @ + 1, !.modelsTried = Append(@, inv[r].model + 1)]]
    /\ UNCHANGED <<env, cache, event, fnVars, clusterVars>>

\* the last model failed too, and the call returns an empty answer
AllModelsFailAnswersEmpty(r) ==
    /\ inv[r].pc = "awaitModel"
    /\ inv[r].model = NumModels
    /\ inv' = [inv EXCEPT ![r] = ReturnedClassification(@, Body(r), NoValue)]
    /\ UNCHANGED <<env, cache, event, fnVars, clusterVars>>

\* the last model failed too, and the list of models is walked again
AllModelsFailStartsOver(r) ==
    /\ inv[r].pc = "awaitModel"
    /\ inv[r].model = NumModels
    /\ inv' = [inv EXCEPT ![r] = [@ EXCEPT !.model = 1, !.modelsTried = <<1>>]]
    /\ UNCHANGED <<env, cache, event, fnVars, clusterVars>>

\* line 313: the last model failed too
AllModelsFail(r) ==
    /\ inv[r].pc = "awaitModel"
    /\ inv[r].model = NumModels
    /\ inv' = [inv EXCEPT ![r] =
                  Returned(@, 500,
                           ServerError("All AI models failed to provide a valid response."))]
    /\ UNCHANGED <<env, cache, event, fnVars, clusterVars>>

\* line 309 returns the parsed content; with a store it is written (line 334),
\* without one the handler returns it
ModelAnswers(r) ==
    /\ inv[r].pc = "awaitModel"
    /\ \E apiResponse \in LlmAnswers(PromptsOfInv(r)) :
           inv' = [inv EXCEPT ![r] =
                      IF inv[r].store
                      THEN [@ EXCEPT !.apiResponse = apiResponse, !.pc = "awaitCacheSet",
                                     !.cacheSets = @ + 1]
                      ELSE ReturnedClassification(@, Body(r), apiResponse)]
    /\ UNCHANGED <<env, cache, event, fnVars, clusterVars>>

\* store.setJSON under a key derived from the payload alone, without the prompt
CacheSetOkPayloadKey(r) ==
    /\ inv[r].pc = "awaitCacheSet"
    /\ LET key == [KeyOfInv(r) EXCEPT !.prompt = [template |-> "", partOfSpeech |-> ""]]
       IN  cache' = [k \in DOMAIN cache \cup {key} |->
                        IF k = key THEN inv[r].apiResponse ELSE cache[k]]
    /\ inv' = [inv EXCEPT ![r] =
                  ReturnedClassification([@ EXCEPT !.cacheWrite = "ok"], Body(r),
                                         inv[r].apiResponse)]
    /\ UNCHANGED <<env, event, fnVars, clusterVars>>

\* store.setJSON called after hub_word and part_of_speech were overwritten
CacheSetOkStoresOverwritten(r) ==
    /\ inv[r].pc = "awaitCacheSet"
    /\ cache' = [k \in DOMAIN cache \cup {KeyOfInv(r)} |->
                    IF k = KeyOfInv(r)
                    THEN [inv[r].apiResponse EXCEPT !.hub_word = Body(r).word,
                                                    !.part_of_speech = Body(r).partOfSpeech]
                    ELSE cache[k]]
    /\ inv' = [inv EXCEPT ![r] =
                  ReturnedClassification([@ EXCEPT !.cacheWrite = "ok"], Body(r),
                                         inv[r].apiResponse)]
    /\ UNCHANGED <<env, event, fnVars, clusterVars>>

\* lines 334-340: store.setJSON stores the value
CacheSetOk(r) ==
    /\ inv[r].pc = "awaitCacheSet"
    /\ cache' = [k \in DOMAIN cache \cup {KeyOfInv(r)} |->
                    IF k = KeyOfInv(r) THEN inv[r].apiResponse ELSE cache[k]]
    /\ inv' = [inv EXCEPT ![r] =
                  ReturnedClassification([@ EXCEPT !.cacheWrite = "ok"], Body(r),
                                         inv[r].apiResponse)]
    /\ UNCHANGED <<env, event, fnVars, clusterVars>>

\* store.setJSON throws and nothing catches it before the handler's own catch
CacheSetFailsUncaught(r) ==
    /\ inv[r].pc = "awaitCacheSet"
    /\ inv' = [inv EXCEPT ![r] =
                  Returned([@ EXCEPT !.cacheWrite = "error"], 500,
                           ServerError("cache write failed"))]
    /\ UNCHANGED <<env, cache, event, fnVars, clusterVars>>

\* lines 336-340: store.setJSON throws
CacheSetFails(r) ==
    /\ inv[r].pc = "awaitCacheSet"
    /\ inv' = [inv EXCEPT ![r] =
                  ReturnedClassification([@ EXCEPT !.cacheWrite = "error"], Body(r),
                                         inv[r].apiResponse)]
    /\ UNCHANGED <<env, cache, event, fnVars, clusterVars>>

\* one stretch of the handler; at each await the failure of the call comes first
HandlerStep(r) ==
    \/ RespondOptions(r) \/ RespondMethodNotAllowed(r) \/ RespondParseError(r)
    \/ RespondNullBody(r)
    \/ RespondMissingFields(r) \/ StartClassification(r)
    \/ RespondMissingThesaurusKey(r) \/ StartDiscovery(r)
    \/ ThesaurusFails(r) \/ ThesaurusNoEntries(r)
    \/ DiscoveryNotFound(r) \/ DiscoveryAutoProceed(r) \/ DiscoveryDisambiguation(r)
    \/ CacheGetFails(r) \/ CacheGetHit(r) \/ CacheGetMiss(r)
    \/ ModelFails(r) \/ AllModelsFail(r) \/ ModelAnswers(r)
    \/ CacheSetFails(r) \/ CacheSetOk(r)

Next == \E r \in Reqs : HandlerStep(r)

\* the request bodies: unparseable, absent, the text null, or a JSON object
Methods == {"POST", "OPTIONS", "GET"}
JsonBodies ==
    {[kind |-> "json", word |-> w, partOfSpeech |-> p, category |-> c,
      hasSynonyms |-> hs, synonyms |-> syn] :
        w \in {Undefined, "hot"}, p \in {Undefined, "adjective"},
        c \in {Undefined, "Formality"},
        hs \in BOOLEAN, syn \in {<<>>, <<"warm">>, <<"x", "y">>}}
Bodies ==
    {NoBody, [NoBody EXCEPT !.kind = "malformed"], [NoBody EXCEPT !.kind = "null"]} \cup
    {b \in JsonBodies : b.hasSynonyms \/ b.synonyms = <<>>}
Events == [httpMethod : Methods, body : Bodies]

\* the synonym lists a request for this event can come to classify
SynonymsToClassify(ev) ==
    IF ev.body.hasSynonyms /\ Len(ev.body.synonyms) > 0 THEN {ev.body.synonyms}
    ELSE {processed.senses[1].synonyms :
            processed \in {c \in {processSensesWithClustering(
                                     FlatMapEntries(data, ev.body.partOfSpeech),
                                     DefaultPrimarySenseCount, DefaultMaxTotalSenses,
                                     DefaultThreshold) : data \in ThesaurusReplies} :
                              Len(c.senses) = 1 /\ ~c.hasMore}}

\* the store when the request arrives: empty, or holding what an earlier request
\* with the same parameters stored under the key this request derives
StoresFor(ev) ==
    {<<>>} \cup
    UNION {{CacheKeyOf(ev.body.word, ev.body.partOfSpeech, ev.body.category, syn) :> v :
              v \in LlmAnswers(getLLMPrompt(ev.body.word, ev.body.partOfSpeech,
                                            ev.body.category, syn))} :
             syn \in SynonymsToClassify(ev)}

Init ==
    /\ env \in [MW_THESAURUS_API_KEY : BOOLEAN, OPENROUTER_API_KEY : BOOLEAN]
    /\ \E ev \in Events :
           /\ event = [r \in Reqs |-> IF r = 1 THEN ev ELSE [httpMethod |-> "GET", body |-> NoBody]]
           /\ cache \in StoresFor(ev)
    /\ inv = [r \in Reqs |-> IF r = 1 THEN FreshInv ELSE [FreshInv EXCEPT !.pc = "idle"]]
    /\ FnIdle
    /\ ClusterIdle

Spec == Init /\ [][Next]_vars

\* the store when the request arrives, for the runs that are followed to their
\* end: empty, or holding one answer under a key the request can derive
FairStoresFor(ev) ==
    {<<>>} \cup
    {CacheKeyOf(ev.body.word, ev.body.partOfSpeech, ev.body.category, syn) :>
         [hub_word |-> "heat", part_of_speech |-> "adj.",
          answers |-> getLLMPrompt(ev.body.word, ev.body.partOfSpeech, ev.body.category, syn)] :
       syn \in SynonymsToClassify(ev)}

FairInit ==
    /\ env \in [MW_THESAURUS_API_KEY : BOOLEAN, OPENROUTER_API_KEY : BOOLEAN]
    /\ \E ev \in {e \in Events : e.body.category = Undefined} :
           /\ event = [r \in Reqs |-> IF r = 1 THEN ev ELSE [httpMethod |-> "GET", body |-> NoBody]]
           /\ cache \in FairStoresFor(ev)
    /\ inv = [r \in Reqs |-> IF r = 1 THEN FreshInv ELSE [FreshInv EXCEPT !.pc = "idle"]]
    /\ FnIdle
    /\ ClusterIdle

\* every collaborator call returns or fails: an invocation that can take a step
\* takes one in the end
SpecFair == FairInit /\ [][Next]_vars /\ \A r \in Reqs : WF_vars(HandlerStep(r))

----------------------------------------------------------------------------
(* exports.handler of the revision in src/unnamed/part_000, lines 143-260. Up to
   the thesaurus reply, and in the cache and the gateway, it reads like the
   handler above (its cache key is the digest of the payload alone, which tells
   the same requests apart, the prompt being a function of the payload). It
   differs after the reply: senses are grouped by their exact definition, and
   the single-sense branch without a store names a variable that does not exist. *)

\* part_000 lines 202-216: as lines 378-388, with the markup removed and the definition trimmed
RECURSIVE FlatMapEntriesTrimmed(_, _)
FlatMapEntriesTrimmed(data, partOfSpeech) ==
    IF data = <<>> THEN <<>>
    ELSE LET entry == data[1]
             senses == IF entry.fl # partOfSpeech \/ ~entry.hasDef THEN <<>>
                       ELSE [i \in 1..Len(entry.sseq) |->
                                [definition |-> Trim(StripMarkup(entry.sseq[i].definition)),
                                 synonyms   |-> Slice(entry.sseq[i].synonyms, 0, MaxSynonyms)]]
         IN  senses \o FlatMapEntriesTrimmed(Tail(data), partOfSpeech)

\* part_000 lines 218-227: one iteration of the loop that fills senseMap
SenseMapStep(groups, sense) ==
    IF Len(sense.synonyms) = 0 THEN groups
    ELSE LET same == {i \in 1..Len(groups) : groups[i].definition = sense.definition}
         IN  IF same = {}
             THEN Append(groups, [definition |-> sense.definition,
                                  synonyms |-> Dedup(sense.synonyms)])
             ELSE LET i == CHOOSE i \in same : TRUE
                  IN  [groups EXCEPT ![i].synonyms = Dedup(@ \o sense.synonyms)]

\* part_000 lines 218-232: senseMap in insertion order, as the array senses
RECURSIVE SenseMap(_)
SenseMap(raw) ==
    IF raw = <<>> THEN <<>>
    ELSE SenseMapStep(SenseMap(SubSeq(raw, 1, Len(raw) - 1)), raw[Len(raw)])

SensesOf(r, data) == SenseMap(FlatMapEntriesTrimmed(data, Body(r).partOfSpeech))

\* part_000 lines 235-237
DiscoveryNotFoundGrouped(r) ==
    /\ inv[r].pc = "awaitThesaurus"
    /\ \E data \in ThesaurusReplies :
           /\ Len(SensesOf(r, data)) = 0
           /\ inv' = [inv EXCEPT ![r] =
                         Returned([@ EXCEPT !.lookup = "entries", !.data = data], 404,
                                  ErrorBody(<<"No synonyms found for", Body(r).word,
                                              "as a", Body(r).partOfSpeech>>))]
    /\ UNCHANGED <<env, cache, event, fnVars, clusterVars>>

\* part_000 lines 239-251: with a store the classification starts; without one
\* line 245 reads partOfSspeech, the ReferenceError is caught at line 256
DiscoveryAutoProceedGrouped(r) ==
    /\ inv[r].pc = "awaitThesaurus"
    /\ \E data \in ThesaurusReplies :
           LET senses == SensesOf(r, data)
           IN  /\ Len(senses) = 1
               /\ inv' = [inv EXCEPT ![r] =
                             IF inv[r].store
                             THEN EnterClassification([@ EXCEPT !.lookup = "entries", !.data = data],
                                                      senses[1].synonyms, "auto")
                             ELSE Returned([@ EXCEPT !.lookup = "entries", !.data = data,
                                                     !.path = "auto",
                                                     !.synonyms = senses[1].synonyms],
                                           500, ServerError("partOfSspeech is not defined"))]
    /\ UNCHANGED <<env, cache, event, fnVars, clusterVars>>

\* part_000 lines 253-254
DiscoveryDisambiguationGrouped(r) ==
    /\ inv[r].pc = "awaitThesaurus"
    /\ \E data \in ThesaurusReplies :
           LET senses == SensesOf(r, data)
           IN  /\ Len(senses) > 1
               /\ inv' = [inv EXCEPT ![r] =
                             Returned([@ EXCEPT !.lookup = "entries", !.data = data], 200,
                                      [kind |-> "disambiguation", senses |-> senses])]
    /\ UNCHANGED <<env, cache, event, fnVars, clusterVars>>

HandlerStepGrouped(r) ==
    \/ RespondOptions(r) \/ RespondMethodNotAllowed(r) \/ RespondParseError(r)
    \/ RespondNullBody(r)
    \/ RespondMissingFields(r) \/ StartClassification(r)
    \/ RespondMissingThesaurusKey(r) \/ StartDiscovery(r)
    \/ ThesaurusFails(r) \/ ThesaurusNoEntries(r)
    \/ DiscoveryNotFoundGrouped(r) \/ DiscoveryAutoProceedGrouped(r)
    \/ DiscoveryDisambiguationGrouped(r)
    \/ CacheGetHit(r) \/ CacheGetMiss(r) \/ CacheGetFails(r)
    \/ ModelFails(r) \/ AllModelsFail(r) \/ ModelAnswers(r)
    \/ CacheSetOk(r) \/ CacheSetFails(r)

NextGrouped == \E r \in Reqs : HandlerStepGrouped(r)

SpecGrouped == Init /\ [][NextGrouped]_vars

----------------------------------------------------------------------------
(* Concurrent invocations: every request asks for a classification of synonyms
   it brings itself, and the invocations interleave at their awaits. They share
   process.env and the blob store and nothing else. *)

\* the classification requests that run together
RaceBodies ==
    {b \in JsonBodies :
        /\ b.word = "hot" /\ b.partOfSpeech = "adjective" /\ b.category = Undefined
        /\ b.hasSynonyms /\ Len(b.synonyms) > 0}
RaceEvents == [httpMethod : {"POST"}, body : RaceBodies]

\* what an earlier request with the parameters of this event stored
EarlierAnswer(ev) ==
    [hub_word |-> "heat", part_of_speech |-> "adj.",
     answers |-> getLLMPrompt(ev.body.word, ev.body.partOfSpeech, ev.body.category,
                              ev.body.synonyms)]

\* the store when the requests arrive: empty, or holding the answer to an earlier
\* request with the parameters of one of them
RaceStores(events, racers) ==
    {<<>>} \cup
    {CacheKeyOf(events[r].body.word, events[r].body.partOfSpeech, events[r].body.category,
                events[r].body.synonyms) :> EarlierAnswer(events[r]) : r \in racers}

\* up to two of the requests arrive together, the others stay away
RaceInit ==
    /\ env \in [MW_THESAURUS_API_KEY : {TRUE}, OPENROUTER_API_KEY : BOOLEAN]
    /\ \E racers \in {s \in SUBSET Reqs : Cardinality(s) <= 2} :
           /\ event \in {e \in [Reqs -> RaceEvents \cup {[httpMethod |-> "GET", body |-> NoBody]}] :
                            \A r \in Reqs : (r \in racers) <=> (e[r] \in RaceEvents)}
           /\ cache \in RaceStores(event, racers)
           /\ inv = [r \in Reqs |-> IF r \in racers THEN FreshInv
                                     ELSE [FreshInv EXCEPT !.pc = "idle"]]
    /\ FnIdle
    /\ ClusterIdle

\* lines 357-363 with getCachedLlmResponse and callOpenRouterWithFallback
ClassificationStep(r) ==
    \/ StartClassification(r)
    \/ CacheGetHit(r) \/ CacheGetMiss(r) \/ CacheGetFails(r)
    \/ ModelFails(r) \/ AllModelsFail(r) \/ ModelAnswers(r)
    \/ CacheSetOk(r) \/ CacheSetFails(r)

RaceNext == \E r \in Reqs : ClassificationStep(r)

SpecRace == RaceInit /\ [][RaceNext]_vars

----------------------------------------------------------------------------
(* Properties of the scorer and the normaliser *)

\* a string that holds no word: it is empty or all whitespace
HasNoWords(s) == \A i \in 1..Len(s) : IsWs(s[i])

\* C1: calculateSimilarity returns 0 whenever neither input holds a word, in
\* particular for two empty strings.
C1_EmptyInputsScoreZero ==
    (fpc = "scored" /\ HasNoWords(str1) /\ HasNoWords(str2)) => sim.num = 0

\* C2: normalisation is idempotent: cleanDefinition applied to its own result
\* returns that result.
C2_NormalizeIdempotent ==
    fpc = "twice" => recleaned = cleaned

\* C9: calculateSimilarity(a, b) equals calculateSimilarity(b, a) and lies in [0, 1].
C9_SimilaritySymmetricBounded ==
    fpc = "scored" =>
        /\ FracEq(sim, calculateSimilarity(str2, str1))
        /\ sim.den > 0
        /\ 0 <= sim.num
        /\ sim.num <= sim.den

\* two different strings that share some but not all of their tokens were scored
C9_Witness ==
    /\ fpc = "scored"
    /\ str1 # str2
    /\ 0 < sim.num
    /\ sim.num < sim.den

----------------------------------------------------------------------------
(* Properties of processSensesWithClustering *)

RECURSIVE SumSynonymCount(_)
SumSynonymCount(cls) ==
    IF cls = <<>> THEN 0 ELSE cls[1].synonymCount + SumSynonymCount(Tail(cls))

RECURSIVE SumSynonymsLength(_)
SumSynonymsLength(raw) ==
    IF raw = <<>> THEN 0 ELSE Len(raw[1].synonyms) + SumSynonymsLength(Tail(raw))

HasSynonyms(sense) == Len(sense.synonyms) > 0

\* the input senses whose synonym list is not empty, in input order
NonEmptySenses(raw) == SelectSeq(raw, HasSynonyms)

\* senses followed by additionalSenses (nothing when absent or null)
OutputClusters(res) == res.senses \o res.additionalSenses.items

NoDuplicates(seq) == \A i, j \in 1..Len(seq) : seq[i] = seq[j] => i = j

\* C3: senses.length plus the length of additionalSenses (0 when absent or null)
\* is at most maxTotalSenses, for every primarySenseCount and maxTotalSenses.
C3_TotalAtMostMax ==
    cpc = "done" => Len(OutputClusters(result)) <= maxTotalSenses

\* C4 as claimed: with a threshold no similarity exceeds, the synonymCount of the
\* output clusters sum to the synonyms.length of the input senses, for every input.
C4_NoMergeSumEqual ==
    (cpc = "done" /\ similarityThreshold = Frac(1, 1)) =>
        SumSynonymCount(OutputClusters(result)) = SumSynonymsLength(allRawSenses)

\* C4 as amended: with a threshold no similarity exceeds, the two sums are equal
\* when the senses with synonyms number at most maxTotalSenses or at most
\* primarySenseCount; with more of them clusters are dropped and the output sum
\* is the smaller one.
C4_NoMergeSumEqualWithinMax ==
    (cpc = "done" /\ similarityThreshold = Frac(1, 1)) =>
        LET n == Len(NonEmptySenses(allRawSenses))
            out == SumSynonymCount(OutputClusters(result))
            inp == SumSynonymsLength(allRawSenses)
        IN  IF n <= Max(primarySenseCount, maxTotalSenses) THEN out = inp ELSE out < inp

\* nothing merges, there is an overflow slice and no cluster is dropped
C4_Witness ==
    /\ cpc = "done"
    /\ similarityThreshold = Frac(1, 1)
    /\ result.hasMore
    /\ Len(OutputClusters(result)) = Len(NonEmptySenses(allRawSenses))
    /\ Len(OutputClusters(result)) = MaxSenses

\* C5: the synonymCount of the output clusters never sum to more than the
\* synonyms.length of the input senses.
C5_SumNeverExceeds ==
    /\ cpc \in {"loop", "done"} =>
           SumSynonymCount(clusters) <= SumSynonymsLength(allRawSenses)
    /\ cpc = "done" =>
           SumSynonymCount(OutputClusters(result)) <= SumSynonymsLength(allRawSenses)

\* two senses were merged under the default threshold and every cluster is returned
C5_Witness ==
    /\ cpc = "done"
    /\ similarityThreshold = DefaultThreshold
    /\ Len(clusters) >= 1
    /\ Len(clusters) < Len(NonEmptySenses(allRawSenses))
    /\ Len(OutputClusters(result)) = Len(clusters)

\* C6: every returned cluster's synonyms list holds no word twice.
C6_NoDuplicateSynonyms ==
    cpc = "done" =>
        \A i \in 1..Len(OutputClusters(result)) :
            NoDuplicates(OutputClusters(result)[i].synonyms)

\* C8: a sense without synonyms never seeds, joins or changes a cluster: the
\* clusters hold synonyms, the result is the result for the input without such
\* senses, and it is {senses: [], hasMore: false} when no other sense is given.
C8_ZeroSynonymExcluded ==
    /\ cpc \in {"loop", "done"} =>
           \A i \in 1..Len(clusters) :
               /\ clusters[i].synonymCount > 0
               /\ \E j \in 1..Len(allRawSenses) :
                      /\ HasSynonyms(allRawSenses[j])
                      /\ allRawSenses[j].definition = clusters[i].definition
    /\ cpc = "done" =>
           /\ result = processSensesWithClustering(NonEmptySenses(allRawSenses),
                           primarySenseCount, maxTotalSenses, similarityThreshold)
           /\ NonEmptySenses(allRawSenses) = <<>> =>
                  result = [senses |-> <<>>, additionalSenses |-> Absent, hasMore |-> FALSE]

\* a sense without synonyms, whose definition is the longest and is similar to a
\* cluster's, was given together with a sense that has synonyms
C8_Witness ==
    /\ cpc = "done"
    /\ \E i, j \in 1..Len(allRawSenses) :
           /\ allRawSenses[i] = Raw(Str_long, <<>>)
           /\ allRawSenses[j] = Raw(Str_ab, <<"x", "y">>)
    /\ Len(result.senses) >= 1

\* C10: hasMore is true exactly when additionalSenses is a non-empty list; with
\* at most primarySenseCount clusters all are returned as senses, hasMore false.
C10_HasMoreIffAdditional ==
    cpc = "done" =>
        /\ result.hasMore <=>
               (result.additionalSenses.kind = "list" /\ Len(result.additionalSenses.items) > 0)
        /\ Len(clusters) <= primarySenseCount =>
               (result.senses = clusters /\ ~result.hasMore /\ result.additionalSenses = Absent)

\* more clusters than primarySenseCount, and an overflow slice was returned
C10_Witness ==
    /\ cpc = "done"
    /\ Len(clusters) > primarySenseCount
    /\ result.hasMore
    /\ Len(result.additionalSenses.items) >= 1

SortedBySynonymCount(cls) ==
    \A i, j \in 1..Len(cls) : i < j => cls[i].synonymCount >= cls[j].synonymCount

\* C11: senses followed by additionalSenses is in non-increasing order of the
\* clusters' final synonymCount (the length of their merged synonym list), and the
\* two are consecutive slices of the sorted clusters: senses the first ones,
\* additionalSenses the ones directly after.
C11_SortedConsecutiveSlices ==
    cpc = "done" =>
        LET out == OutputClusters(result)
            n == Len(result.senses)
        IN  /\ SortedBySynonymCount(out)
            /\ SortedBySynonymCount(clusters)
            /\ \A i \in 1..Len(out) : out[i].synonymCount = Len(out[i].synonyms)
            /\ Len(out) <= Len(clusters)
            /\ result.senses = SubSeq(clusters, 1, n)
            /\ result.additionalSenses.items =
                   SubSeq(clusters, n + 1, n + Len(result.additionalSenses.items))

\* a merge made a later cluster the largest, so the final sort changed the order
\* the loop left, and both slices hold a cluster
C11_Witness ==
    /\ cpc = "done"
    /\ clusters # ClusterAll(processedSenses, similarityThreshold)
    /\ Len(result.senses) >= 1
    /\ Len(result.additionalSenses.items) >= 1

\* every cluster beyond maxTotalSenses is no larger than any cluster returned
DroppedNoLarger ==
    \A i \in 1..Len(OutputClusters(result)) :
        \A j \in (maxTotalSenses + 1)..Len(clusters) :
            clusters[j].synonymCount <= OutputClusters(result)[i].synonymCount

\* C12 as claimed: with primarySenseCount <= maxTotalSenses and more clusters than
\* maxTotalSenses, the result holds primarySenseCount senses and
\* maxTotalSenses - primarySenseCount additionalSenses, hasMore is true, and no
\* dropped cluster is larger than a returned one.
C12_OverflowHasMore ==
    (cpc = "done" /\ primarySenseCount <= maxTotalSenses /\ Len(clusters) > maxTotalSenses) =>
        /\ Len(result.senses) = primarySenseCount
        /\ Len(result.additionalSenses.items) = maxTotalSenses - primarySenseCount
        /\ result.hasMore
        /\ DroppedNoLarger

\* C12 as amended: the same lengths and the same order, with hasMore true (and
\* additionalSenses a list) when primarySenseCount < maxTotalSenses, and hasMore
\* false with additionalSenses null when primarySenseCount = maxTotalSenses.
C12_OverflowHasMoreBelowMax ==
    (cpc = "done" /\ primarySenseCount <= maxTotalSenses /\ Len(clusters) > maxTotalSenses) =>
        /\ Len(result.senses) = primarySenseCount
        /\ Len(result.additionalSenses.items) = maxTotalSenses - primarySenseCount
        /\ OutputClusters(result) = SubSeq(clusters, 1, maxTotalSenses)
        /\ result.hasMore <=> primarySenseCount < maxTotalSenses
        /\ result.additionalSenses.kind =
               (IF primarySenseCount < maxTotalSenses THEN "list" ELSE "null")
        /\ DroppedNoLarger

\* nine senses with one synonym each, none merged, under the default parameters:
\* three senses, five additional senses, hasMore true, the ninth dropped
C12_Witness ==
    /\ cpc = "done"
    /\ primarySenseCount = DefaultPrimarySenseCount
    /\ maxTotalSenses = DefaultMaxTotalSenses
    /\ Len(allRawSenses) = 9
    /\ Len(clusters) = 9
    /\ \A i \in 1..9 : clusters[i].synonymCount = 1
    /\ Len(result.senses) = 3
    /\ Len(result.additionalSenses.items) = 5
    /\ result.hasMore

\* for every cluster built from the first k processed senses, in creation order,
\* the indexes of the senses that seeded it or were merged into it
RECURSIVE MembersOf(_, _, _)
MembersOf(processed, k, threshold) ==
    IF k = 0 THEN <<>>
    ELSE LET before == MembersOf(processed, k - 1, threshold)
             cls == ClusterAll(SubSeq(processed, 1, k - 1), threshold)
             i == FirstMatch(cls, processed[k], threshold)
         IN  IF processed[k].synonymCount = 0 THEN before
             ELSE IF i = 0 THEN Append(before, {k})
             ELSE [before EXCEPT ![i] = @ \cup {k}]

\* the cluster carries a member's definition, and no member's definition is longer
LongestOfMembers(cluster, members, processed) ==
    /\ \E j \in members : processed[j].definition = cluster.definition
    /\ \A j \in members : Len(processed[j].definition) <= Len(cluster.definition)

\* C13: after every step of the loop, and in the result, the definition of a
\* cluster is the definition of one of the senses merged into it, and no sense
\* merged into it has a longer definition.
C13_DefinitionIsLongest ==
    /\ cpc = "loop" =>
           LET members == MembersOf(processedSenses, idx - 1, similarityThreshold)
           IN  /\ Len(members) = Len(clusters)
               /\ \A i \in 1..Len(clusters) :
                      LongestOfMembers(clusters[i], members[i], processedSenses)
    /\ cpc = "done" =>
           LET created == ClusterAll(processedSenses, similarityThreshold)
               members == MembersOf(processedSenses, Len(processedSenses), similarityThreshold)
               out == OutputClusters(result)
           IN  /\ Len(members) = Len(created)
               /\ \A c \in SetOf(clusters) \cup SetOf(out) :
                      \E i \in 1..Len(created) :
                          /\ created[i] = c
                          /\ LongestOfMembers(c, members[i], processedSenses)

\* a returned cluster absorbed a sense whose definition is longer than the one it
\* was seeded with, and took that definition
C13_Witness ==
    /\ cpc = "done"
    /\ LET members == MembersOf(processedSenses, Len(processedSenses), similarityThreshold)
           created == ClusterAll(processedSenses, similarityThreshold)
       IN  \E i \in 1..Len(created) :
               /\ Cardinality(members[i]) >= 2
               /\ created[i] \in SetOf(OutputClusters(result))
               /\ \E j \in members[i] :
                      /\ \A k \in members[i] : j <= k
                      /\ Len(processedSenses[j].definition) < Len(created[i].definition)

----------------------------------------------------------------------------
(* Properties of generateCacheKey *)

\* the properties JSON.stringify writes: those whose value is not undefined
DefinedProperties(object) == {object[i] : i \in {j \in 1..Len(object) : IsDefined(object[j])}}

\* C21: two objects that hold the same properties, inserted in whatever order,
\* give the same key when the prompt is the same.
C21_KeyOrderInsensitive ==
    (kpc = "objectKeys" /\ SetOf(object1) = SetOf(object2) /\ prompt1 = prompt2) =>
        key1 = key2

\* {b: 2, a: 1} and {a: 1, b: 2} with one prompt
C21_Witness ==
    /\ kpc = "objectKeys"
    /\ object1 = << <<"b", JsString("2")>>, <<"a", JsString("1")>> >>
    /\ object2 = << <<"a", JsString("1")>>, <<"b", JsString("2")>> >>
    /\ prompt1 = prompt2
    /\ key1 = key2

\* C22: with the digest taken as injective, two payloads passed to
\* getCachedLlmResponse get the same key exactly when they agree in word,
\* partOfSpeech, category and the synonyms list; and generateCacheKey gives
\* different keys whenever the prompts differ or the properties written differ.
C22_KeyChangesWithEveryField ==
    /\ kpc = "payloadKeys" =>
           /\ key1 = generateCacheKey(object1, prompt1)
           /\ key2 = generateCacheKey(object2, prompt2)
           /\ key1 = key2 <=> payload1 = payload2
    /\ kpc = "objectKeys" =>
           /\ prompt1 # prompt2 => key1 # key2
           /\ DefinedProperties(object1) # DefinedProperties(object2) => key1 # key2

\* two payloads that differ in the order of their synonyms only got different keys
C22_Witness ==
    /\ kpc = "payloadKeys"
    /\ payload1.synonyms = <<"x", "y">>
    /\ payload2 = [payload1 EXCEPT !.synonyms = <<"y", "x">>]
    /\ key1 # key2

----------------------------------------------------------------------------
(* Properties of the handler *)

NoCollaboratorCalled(i) ==
    /\ i.thesaurusCalls = 0 /\ i.cacheGets = 0 /\ i.cacheSets = 0
    /\ i.gatewayCalls = 0 /\ i.modelsTried = <<>>

\* C7: a POST request whose body is no parseable JSON ends with status 400, not
\* 5xx, and calls no collaborator.
C7_MalformedBodyIs400 ==
    \A r \in Reqs :
        (inv[r].pc = "done" /\ event[r].httpMethod = "POST" /\ ~BodyParses(r)) =>
            /\ inv[r].response.statusCode = 400
            /\ NoCollaboratorCalled(inv[r])

\* a POST request whose body parses and names a word and a part of speech
ValidRequest(r) ==
    /\ event[r].httpMethod = "POST"
    /\ Body(r).kind = "json"
    /\ ~Falsy(Body(r).word) /\ ~Falsy(Body(r).partOfSpeech)

CacheOrGatewayAccessed(i) == i.cacheGets > 0 \/ i.cacheSets > 0 \/ i.gatewayCalls > 0

\* C14: a request with a non-empty synonyms list is classified directly and never
\* calls the thesaurus; a request whose synonyms are absent or an empty list is
\* never classified directly, calls the thesaurus once as its first step (given
\* the thesaurus credential; without it the request ends with 500 and calls
\* nothing) and touches neither cache nor gateway before the thesaurus was called.
C14_RoutingBySynonyms ==
    \A r \in Reqs :
        (ValidRequest(r) /\ inv[r].pc \notin {"idle", "start"}) =>
            IF Body(r).hasSynonyms /\ Len(Body(r).synonyms) > 0
            THEN /\ inv[r].path = "direct"
                 /\ inv[r].synonyms = Body(r).synonyms
                 /\ inv[r].thesaurusCalls = 0
                 /\ CacheOrGatewayAccessed(inv[r])
            ELSE /\ inv[r].path # "direct"
                 /\ inv[r].thesaurusCalls = (IF env.MW_THESAURUS_API_KEY THEN 1 ELSE 0)
                 /\ inv[r].pc = "awaitThesaurus" => ~CacheOrGatewayAccessed(inv[r])
                 /\ CacheOrGatewayAccessed(inv[r]) =>
                        (inv[r].thesaurusCalls = 1 /\ inv[r].path = "auto")
                 /\ ~env.MW_THESAURUS_API_KEY =>
                        (inv[r].response.statusCode = 500 /\ NoCollaboratorCalled(inv[r]))

\* a request with an empty synonyms list called the thesaurus and, after it, the gateway
C14_Witness ==
    \E r \in Reqs :
        /\ ValidRequest(r)
        /\ Body(r).hasSynonyms /\ Body(r).synonyms = <<>>
        /\ inv[r].pc = "done"
        /\ inv[r].thesaurusCalls = 1
        /\ inv[r].gatewayCalls = 1
        /\ inv[r].response.statusCode = 200

\* clustering the thesaurus reply of request r gave one sense and no overflow
SingleSense(r) ==
    LET processed == ClusteringOf(r, inv[r].data)
    IN  Len(processed.senses) = 1 /\ ~processed.hasMore

\* C15: in discovery, when clustering returns exactly one sense and hasMore false,
\* the request goes on to classification with that cluster's synonyms and the
\* request's word, partOfSpeech and category (in the cache key and in the
\* prompts); its response is never a disambiguation object: it is a
\* classification object, or 500 when the gateway failed.
C15_SingleSenseAutoProceeds ==
    \A r \in Reqs :
        (ValidRequest(r) /\ SingleSense(r)) =>
            LET only == ClusteringOf(r, inv[r].data).senses[1]
                prompts == getLLMPrompt(Body(r).word, Body(r).partOfSpeech,
                                        Body(r).category, only.synonyms)
            IN  /\ inv[r].path = "auto"
                /\ inv[r].synonyms = only.synonyms
                /\ inv[r].processedSenses = ClusteringOf(r, inv[r].data)
                /\ CacheOrGatewayAccessed(inv[r])
                /\ KeyOfInv(r) = CacheKeyOf(Body(r).word, Body(r).partOfSpeech,
                                            Body(r).category, only.synonyms)
                /\ inv[r].cacheRead = "hit" => inv[r].apiResponse = cache[KeyOfInv(r)]
                /\ (inv[r].cacheRead # "hit" /\ inv[r].apiResponse # NoValue) =>
                       inv[r].apiResponse.answers = prompts
                /\ inv[r].pc = "done" =>
                       /\ inv[r].response.body.kind \in {"classification", "error"}
                       /\ inv[r].response.body.kind = "classification" <=>
                              inv[r].response.statusCode = 200
                       /\ inv[r].response.body.kind = "error" =>
                              (inv[r].response.statusCode = 500 /\ inv[r].gatewayCalls = 1)

\* one cluster of two merged senses was classified by the gateway after a cache miss
C15_Witness ==
    \E r \in Reqs :
        /\ ValidRequest(r)
        /\ ~Body(r).hasSynonyms
        /\ SingleSense(r)
        /\ Len(FlatMapEntries(inv[r].data, Body(r).partOfSpeech)) >= 2
        /\ inv[r].pc = "done"
        /\ inv[r].cacheRead = "miss"
        /\ inv[r].response.statusCode = 200
        /\ inv[r].response.body.kind = "classification"

\* clustering the thesaurus reply of request r gave several senses, or one and an overflow
SeveralSenses(r) ==
    LET processed == ClusteringOf(r, inv[r].data)
    IN  Len(processed.senses) > 1 \/ (Len(processed.senses) = 1 /\ processed.hasMore)

\* C16: in discovery, when clustering returns more than one sense (or one sense
\* with hasMore true), the request ends with status 200 and a body that carries
\* the senses, additionalSenses and hasMore clustering produced, and it accesses
\* neither the cache nor the gateway.
C16_SeveralSensesDisambiguation ==
    \A r \in Reqs :
        (ValidRequest(r) /\ SeveralSenses(r)) =>
            LET processed == ClusteringOf(r, inv[r].data)
            IN  /\ inv[r].pc = "done"
                /\ inv[r].response.statusCode = 200
                /\ inv[r].response.body =
                       [kind |-> "disambiguation",
                        senses |-> processed.senses,
                        additionalSenses |-> processed.additionalSenses,
                        hasMore |-> processed.hasMore]
                /\ inv[r].thesaurusCalls = 1
                /\ ~CacheOrGatewayAccessed(inv[r])
                /\ inv[r].modelsTried = <<>>
                /\ inv[r].cacheRead = "none" /\ inv[r].cacheWrite = "none"

\* four clusters under the defaults: three senses, one additional sense, hasMore true
C16_Witness ==
    \E r \in Reqs :
        /\ ValidRequest(r)
        /\ SeveralSenses(r)
        /\ inv[r].pc = "done"
        /\ inv[r].response.body.kind = "disambiguation"
        /\ Len(inv[r].response.body.senses) = DefaultPrimarySenseCount
        /\ inv[r].response.body.hasMore
        /\ Len(inv[r].response.body.additionalSenses.items) = 1

\* C17: every 200 response that carries a classification, read from the cache or
\* computed by the gateway, on the direct or the auto-proceed path, has hub_word
\* equal to the request's word and part_of_speech equal to the request's
\* partOfSpeech, and is otherwise the value the cache or the gateway gave.
C17_HubWordAndTagOverwritten ==
    \A r \in Reqs :
        (inv[r].pc = "done" /\ inv[r].response.statusCode = 200
            /\ inv[r].response.body.kind = "classification") =>
            /\ inv[r].path \in {"direct", "auto"}
            /\ inv[r].response.body.value.hub_word = Body(r).word
            /\ inv[r].response.body.value.part_of_speech = Body(r).partOfSpeech
            /\ inv[r].response.body.value.answers = inv[r].apiResponse.answers

\* a cached classification whose hub_word and part_of_speech both differ from the
\* request's was returned on the auto-proceed path
C17_Witness ==
    \E r \in Reqs :
        /\ inv[r].pc = "done"
        /\ inv[r].response.statusCode = 200
        /\ inv[r].response.body.kind = "classification"
        /\ inv[r].path = "auto"
        /\ inv[r].cacheRead = "hit"
        /\ inv[r].apiResponse.hub_word # Body(r).word
        /\ inv[r].apiResponse.part_of_speech # Body(r).partOfSpeech

\* apiResponse with the two fields the handler overwrites
Overwritten(r, apiResponse) ==
    [apiResponse EXCEPT !.hub_word = Body(r).word, !.part_of_speech = Body(r).partOfSpeech]

\* C18: in a classification whose cache reads and writes work: when the cache
\* holds a value under the derived key, that value is returned and the gateway is
\* not invoked; when it holds none, the gateway is invoked exactly once and, when
\* it answers, the answer is stored under that same key and returned (when it
\* fails nothing is stored).
C18_HitSkipsGatewayMissStores ==
    \A r \in Reqs :
        /\ inv[r].cacheRead = "hit" =>
               /\ inv[r].gatewayCalls = 0 /\ inv[r].modelsTried = <<>>
               /\ inv[r].cacheGets = 1 /\ inv[r].cacheSets = 0
               /\ KeyOfInv(r) \in DOMAIN cache
               /\ inv[r].apiResponse = cache[KeyOfInv(r)]
               /\ inv[r].pc = "done"
               /\ inv[r].response =
                      [statusCode |-> 200,
                       body |-> [kind |-> "classification",
                                 value |-> Overwritten(r, cache[KeyOfInv(r)])]]
        /\ (inv[r].cacheRead = "miss" /\ inv[r].cacheWrite # "error") =>
               /\ inv[r].gatewayCalls = 1
               /\ inv[r].cacheGets = 1
               /\ inv[r].cacheWrite = "none" =>
                      /\ KeyOfInv(r) \notin DOMAIN cache
                      /\ inv[r].pc = "done" =>
                             (inv[r].response.statusCode = 500 /\ inv[r].cacheSets = 0)
               /\ inv[r].cacheWrite = "ok" =>
                      /\ inv[r].cacheSets = 1
                      /\ inv[r].apiResponse \in LlmAnswers(PromptsOfInv(r))
                      /\ KeyOfInv(r) \in DOMAIN cache
                      /\ cache[KeyOfInv(r)] = inv[r].apiResponse
                      /\ inv[r].pc = "done"
                      /\ inv[r].response =
                             [statusCode |-> 200,
                              body |-> [kind |-> "classification",
                                        value |-> Overwritten(r, inv[r].apiResponse)]]

\* after a miss the third model answered; the answer was stored and returned
C18_Witness ==
    \E r \in Reqs :
        /\ inv[r].cacheRead = "miss"
        /\ inv[r].cacheWrite = "ok"
        /\ inv[r].modelsTried = <<1, 2, 3>>
        /\ inv[r].pc = "done"
        /\ cache[KeyOfInv(r)] = inv[r].apiResponse
        /\ inv[r].response.statusCode = 200

\* the two 500 bodies a failing gateway leads to, lines 295 and 313
GatewayFailures ==
    {ServerError("OpenRouter API key is not configured."),
     ServerError("All AI models failed to provide a valid response.")}

\* C19: a failing cache read or write never produces an error response. After a
\* failed read the gateway is invoked, once, as on a miss; after a failed write
\* the request returns the gateway's answer with status 200; and every error
\* response of a classification is the gateway's failure.
C19_CacheFailuresRecovered ==
    \A r \in Reqs :
        /\ inv[r].cacheRead = "error" =>
               /\ inv[r].gatewayCalls = 1
               /\ inv[r].pc \in {"awaitModel", "awaitCacheSet", "done"}
               /\ inv[r].pc = "awaitModel" => inv[r].modelsTried # <<>>
               /\ (inv[r].pc = "done" /\ inv[r].response.statusCode # 200) =>
                      (inv[r].response.statusCode = 500
                          /\ inv[r].response.body \in GatewayFailures
                          /\ inv[r].apiResponse = NoValue)
        /\ inv[r].cacheWrite = "error" =>
               /\ inv[r].apiResponse \in LlmAnswers(PromptsOfInv(r))
               /\ inv[r].pc = "done"
               /\ inv[r].response =
                      [statusCode |-> 200,
                       body |-> [kind |-> "classification",
                                 value |-> Overwritten(r, inv[r].apiResponse)]]
        /\ (inv[r].pc = "done" /\ inv[r].path # "none" /\ inv[r].response.statusCode # 200) =>
               inv[r].response.body \in GatewayFailures

\* the read failed, the gateway answered, the write failed, and the answer was returned
C19_Witness ==
    \E r \in Reqs :
        /\ inv[r].cacheRead = "error"
        /\ inv[r].cacheWrite = "error"
        /\ inv[r].pc = "done"
        /\ inv[r].response.statusCode = 200
        /\ inv[r].response.body.kind = "classification"

\* C20: when getStore throws, the direct path and the single-sense auto-proceed
\* path both call the gateway, once and without touching the cache, and return
\* its answer with status 200; an error response on these paths is the gateway's
\* own failure, never a consequence of the missing store.
C20_NoStoreComputesFresh ==
    \A r \in Reqs :
        (ValidRequest(r) /\ ~inv[r].store /\ inv[r].path \in {"direct", "auto"}) =>
            /\ inv[r].gatewayCalls = 1
            /\ inv[r].cacheGets = 0 /\ inv[r].cacheSets = 0
            /\ inv[r].pc = "done" =>
                   \/ /\ inv[r].apiResponse \in LlmAnswers(PromptsOfInv(r))
                      /\ inv[r].response =
                             [statusCode |-> 200,
                              body |-> [kind |-> "classification",
                                        value |-> Overwritten(r, inv[r].apiResponse)]]
                   \/ inv[r].response.body \in GatewayFailures

\* C23: a POST request whose body parses but lacks word or lacks partOfSpeech
\* ends with status 400 and the message that both are required, and calls no
\* collaborator.
C23_MissingFieldsIs400 ==
    \A r \in Reqs :
        (inv[r].pc = "done" /\ event[r].httpMethod = "POST" /\ BodyParses(r)
            /\ (Falsy(Body(r).word) \/ Falsy(Body(r).partOfSpeech))) =>
            /\ inv[r].response =
                   [statusCode |-> 400,
                    body |-> ErrorBody(<<"Word and Part of Speech are required.">>)]
            /\ NoCollaboratorCalled(inv[r])

\* the error message holds the text x
Names(body, x) == \E i \in DOMAIN body.error : body.error[i] = x

\* C24: in discovery, when the thesaurus replied with entries and clustering
\* yields no sense for the requested part of speech, the request ends with
\* status 404 and a message that names the word and the part of speech, and it
\* accesses neither the cache nor the gateway.
C24_NoSensesIs404 ==
    \A r \in Reqs :
        (ValidRequest(r) /\ inv[r].lookup = "entries"
            /\ Len(ClusteringOf(r, inv[r].data).senses) = 0) =>
            /\ inv[r].pc = "done"
            /\ inv[r].response.statusCode = 404
            /\ inv[r].response.body.kind = "error"
            /\ Names(inv[r].response.body, Body(r).word)
            /\ Names(inv[r].response.body, Body(r).partOfSpeech)
            /\ ~CacheOrGatewayAccessed(inv[r])
            /\ inv[r].modelsTried = <<>>

\* the reply held a sense of the requested part of speech, but none with synonyms
C24_Witness ==
    \E r \in Reqs :
        /\ ValidRequest(r)
        /\ inv[r].lookup = "entries"
        /\ Len(FlatMapEntries(inv[r].data, Body(r).partOfSpeech)) >= 1
        /\ Len(ClusteringOf(r, inv[r].data).senses) = 0
        /\ inv[r].response.statusCode = 404

\* C25: in discovery, when the thesaurus reply is no non-empty list of entry
\* objects, the request ends with status 404 and a message that names the word
\* and the part of speech, without clustering and without access to the cache
\* or the gateway.
C25_NoEntriesIs404 ==
    \A r \in Reqs :
        (ValidRequest(r) /\ inv[r].lookup = "noEntries") =>
            /\ inv[r].pc = "done"
            /\ inv[r].response.statusCode = 404
            /\ inv[r].response.body.kind = "error"
            /\ Names(inv[r].response.body, Body(r).word)
            /\ Names(inv[r].response.body, Body(r).partOfSpeech)
            /\ inv[r].processedSenses = EmptyClustering /\ inv[r].data = <<>>
            /\ ~CacheOrGatewayAccessed(inv[r])

\* the gateway call of request r has returned an answer
GatewayAnswered(r) ==
    inv[r].cacheRead # "hit" /\ inv[r].apiResponse # NoValue

\* C26: the models tried so far are the first ones of the list, in list order,
\* each once, and the last of them is the one being awaited; the answer returned
\* is that of the last model tried, and once the call has answered or failed no
\* further model is tried.
C26_ModelsTriedInOrder ==
    /\ [](\A r \in Reqs :
            /\ Len(inv[r].modelsTried) <= NumModels
            /\ \A i \in 1..Len(inv[r].modelsTried) : inv[r].modelsTried[i] = i
            /\ inv[r].pc = "awaitModel" =>
                   (inv[r].model >= 1 /\ inv[r].model = Len(inv[r].modelsTried))
            /\ GatewayAnswered(r) =>
                   /\ inv[r].apiResponse \in LlmAnswers(PromptsOfInv(r))
                   /\ inv[r].model >= 1 /\ inv[r].model = Len(inv[r].modelsTried))
    /\ [][\A r \in Reqs :
            inv[r].pc # "awaitModel" =>
                (inv'[r].modelsTried = inv[r].modelsTried
                    \/ (inv[r].modelsTried = <<>> /\ inv'[r].modelsTried = <<1>>))]_vars

\* two models failed, the third answered and its answer was returned
C26_Witness ==
    \E r \in Reqs :
        /\ GatewayAnswered(r)
        /\ inv[r].modelsTried = <<1, 2, 3>>
        /\ inv[r].model = 3
        /\ inv[r].pc = "done"
        /\ inv[r].response.body.kind = "classification"
        /\ inv[r].response.body.value.answers = inv[r].apiResponse.answers

\* every model of the list was tried and none answered
AllModelsFailed(r) ==
    /\ Len(inv[r].modelsTried) = NumModels
    /\ inv[r].pc = "done"
    /\ inv[r].apiResponse = NoValue

\* C27: when every model fails, the request ends with status 500 whose message
\* wraps the gateway's error, and the request writes nothing to the cache.
C27_AllModelsFailIs500 ==
    \A r \in Reqs :
        AllModelsFailed(r) =>
            /\ inv[r].response =
                   [statusCode |-> 500,
                    body |-> ErrorBody(<<"Server error: ",
                                         "All AI models failed to provide a valid response.">>)]
            /\ inv[r].gatewayCalls = 1
            /\ inv[r].cacheSets = 0 /\ inv[r].cacheWrite = "none"
            /\ inv[r].cacheRead = "miss" => KeyOfInv(r) \notin DOMAIN cache

\* with a store and after a cache miss all five models failed
C27_Witness ==
    \E r \in Reqs :
        /\ AllModelsFailed(r)
        /\ inv[r].store
        /\ inv[r].cacheRead = "miss"
        /\ inv[r].modelsTried = <<1, 2, 3, 4, 5>>
        /\ inv[r].response.statusCode = 500

\* C28: when the thesaurus call fails (the reply is not OK, or the fetch
\* rejects), the request ends with status 500 whose message wraps the cause;
\* no clustering was run and neither the cache nor the gateway was accessed.
C28_ThesaurusFailureIs500 ==
    \A r \in Reqs :
        inv[r].lookup = "failed" =>
            /\ inv[r].pc = "done"
            /\ inv[r].thesaurusCalls = 1
            /\ inv[r].response.statusCode = 500
            /\ \E cause \in {"MW API request failed: 500",
                             "request to dictionaryapi.com failed"} :
                   inv[r].response.body = ErrorBody(<<"Server error: ", cause>>)
            /\ inv[r].data = <<>> /\ inv[r].processedSenses = EmptyClustering
            /\ inv[r].path = "none"
            /\ ~CacheOrGatewayAccessed(inv[r])
            /\ inv[r].modelsTried = <<>>

\* the thesaurus replied with status 500
C28_Witness ==
    \E r \in Reqs :
        /\ inv[r].lookup = "failed"
        /\ inv[r].pc = "done"
        /\ inv[r].response.body = ServerError("MW API request failed: 500")

\* C29 as claimed: without the thesaurus credential a discovery request ends with
\* 500 before any thesaurus call, and without the gateway credential a
\* classification ends with 500 before any model is tried.
C29_MissingCredentialIs500 ==
    \A r \in Reqs :
        (ValidRequest(r) /\ inv[r].pc = "done") =>
            /\ (~env.MW_THESAURUS_API_KEY /\ ~(Body(r).hasSynonyms /\ Len(Body(r).synonyms) > 0)) =>
                   (inv[r].response.statusCode = 500 /\ inv[r].thesaurusCalls = 0)
            /\ (~env.OPENROUTER_API_KEY /\ inv[r].path # "none") =>
                   (inv[r].response.statusCode = 500 /\ inv[r].modelsTried = <<>>)

\* C29 as amended: the same for the thesaurus credential; without the gateway
\* credential no model is ever tried, and a classification ends with 500 as soon
\* as it calls the gateway, that is unless the cache held the answer, in which
\* case it ends with 200 and the gateway is not called.
C29_MissingCredentialIs500UnlessCached ==
    \A r \in Reqs :
        /\ ~env.OPENROUTER_API_KEY => inv[r].modelsTried = <<>>
        /\ (ValidRequest(r) /\ inv[r].pc \notin {"idle", "start"}
                /\ ~env.MW_THESAURUS_API_KEY
                /\ ~(Body(r).hasSynonyms /\ Len(Body(r).synonyms) > 0)) =>
               /\ inv[r].pc = "done"
               /\ inv[r].response =
                      [statusCode |-> 500,
                       body |-> ErrorBody(<<"Merriam-Webster API key is not configured.">>)]
               /\ NoCollaboratorCalled(inv[r])
        /\ (ValidRequest(r) /\ ~env.OPENROUTER_API_KEY /\ inv[r].path # "none"
                /\ inv[r].pc # "awaitCacheGet") =>
               /\ inv[r].pc = "done"
               /\ IF inv[r].cacheRead = "hit"
                  THEN inv[r].response.statusCode = 200 /\ inv[r].gatewayCalls = 0
                  ELSE /\ inv[r].response =
                              [statusCode |-> 500,
                               body |-> ServerError("OpenRouter API key is not configured.")]
                       /\ inv[r].gatewayCalls = 1
                       /\ inv[r].cacheSets = 0

\* without the gateway credential a classification missed the cache and ended with 500
C29_Witness ==
    \E r \in Reqs :
        /\ ValidRequest(r)
        /\ ~env.OPENROUTER_API_KEY
        /\ inv[r].cacheRead = "miss"
        /\ inv[r].pc = "done"
        /\ inv[r].response.statusCode = 500
        /\ inv[r].modelsTried = <<>>

\* C30: a request looks the word up in the thesaurus at most once and invokes the
\* gateway at most once; after a failed lookup or a failed gateway call the
\* request is over, and a request that is over makes no further step.
C30_NoRetry ==
    /\ [](\A r \in Reqs :
            /\ inv[r].thesaurusCalls <= 1
            /\ inv[r].gatewayCalls <= 1
            /\ inv[r].lookup = "failed" => (inv[r].pc = "done" /\ inv[r].gatewayCalls = 0)
            /\ (inv[r].gatewayCalls = 1
                    /\ inv[r].pc \notin {"awaitModel", "awaitCacheSet"}
                    /\ inv[r].apiResponse = NoValue) =>
                   (inv[r].pc = "done" /\ inv[r].response.body \in GatewayFailures))
    /\ [][\A r \in Reqs : inv[r].pc = "done" => inv'[r] = inv[r]]_vars

\* the lookup succeeded, then the one gateway call failed with its last model
C30_Witness ==
    \E r \in Reqs :
        /\ inv[r].thesaurusCalls = 1
        /\ inv[r].gatewayCalls = 1
        /\ AllModelsFailed(r)
        /\ inv[r].response.statusCode = 500

----------------------------------------------------------------------------
(* Properties of concurrent requests *)

Racing(r) == inv[r].pc # "idle"
Racers == {r \in Reqs : Racing(r)}
\* the key a classification request derives from its own body
KeyOfBody(r) ==
    CacheKeyOf(Body(r).word, Body(r).partOfSpeech, Body(r).category, Body(r).synonyms)
SameKey == \A r, q \in Racers : KeyOfBody(r) = KeyOfBody(q)
Is200Classification(r) ==
    /\ inv[r].response.statusCode = 200
    /\ inv[r].response.body.kind = "classification"
\* the gateway answered request r, which stored the answer
StoredByRacer(r, value) ==
    /\ inv[r].gatewayCalls = 1
    /\ inv[r].cacheWrite = "ok"
    /\ inv[r].apiResponse = value

\* C31 as stated: whenever the concurrent requests derive one key, each finished
\* request has a 200 classification, none has called the gateway twice, and once
\* all have finished the cache holds under the key what the gateway answered to
\* one of them.
C31_RaceAllAnswered ==
    SameKey =>
        /\ \A r \in Racers :
               /\ inv[r].gatewayCalls <= 1
               /\ inv[r].pc = "done" => Is200Classification(r)
        /\ (Racers # {} /\ \A r \in Racers : inv[r].pc = "done") =>
               \A r \in Racers :
                   /\ KeyOfBody(r) \in DOMAIN cache
                   /\ \E q \in Racers :
                          inv[q].gatewayCalls = 1 /\ inv[q].apiResponse = cache[KeyOfBody(r)]

\* C31, amended: whenever the concurrent requests derive one key, none calls the
\* gateway twice; a finished request has a 200 classification unless its own
\* gateway call failed, and then it has a 500; the cache holds nothing under
\* another key, and under the key it holds what it held before the requests or
\* what the gateway answered to a request that stored it; after a write that
\* succeeded it holds a value.
C31_RaceAnsweredUnlessGatewayFails ==
    SameKey =>
        /\ \A r \in Racers :
               /\ inv[r].gatewayCalls <= 1
               /\ inv[r].pc = "done" =>
                      \/ Is200Classification(r)
                      \/ /\ inv[r].response.statusCode = 500
                         /\ inv[r].response.body \in GatewayFailures
                         /\ inv[r].gatewayCalls = 1
                         /\ inv[r].apiResponse = NoValue
               /\ inv[r].cacheWrite = "ok" => KeyOfBody(r) \in DOMAIN cache
        /\ \A k \in DOMAIN cache :
               \E r \in Racers :
                   /\ k = KeyOfBody(r)
                   /\ \/ cache[k] = EarlierAnswer(event[r])
                      \/ \E q \in Racers : StoredByRacer(q, cache[k])

\* two requests for one key both missed, both were answered by the gateway with
\* different results and both stored theirs; the cache holds one of the two
C31_Witness ==
    /\ Cardinality(Racers) = 2
    /\ SameKey
    /\ \A r \in Racers :
           /\ inv[r].pc = "done"
           /\ inv[r].cacheRead = "miss"
           /\ StoredByRacer(r, inv[r].apiResponse)
           /\ Is200Classification(r)
    /\ \E r, q \in Racers :
           /\ inv[r].apiResponse # inv[q].apiResponse
           /\ cache[KeyOfBody(r)] = inv[q].apiResponse

----------------------------------------------------------------------------
(* Further properties of processSensesWithClustering *)

\* the indices of seq that satisfy Test
Count(seq, Test(_)) == Cardinality({i \in 1..Len(seq) : Test(seq[i])})
NormalizesToEmpty(sense) == HasSynonyms(sense) /\ cleanDefinition(sense.definition) = <<>>
HasEmptyCleanDef(cluster) == cluster.cleanDef = <<>>

\* C32: under the default threshold, senses with synonyms whose definitions
\* normalise to the empty string are not merged with one another: the clusters
\* hold as many with an empty cleanDef as the input holds such senses.
C32_EmptyDefinitionsNotMerged ==
    (cpc = "done" /\ similarityThreshold = DefaultThreshold) =>
        Count(clusters, HasEmptyCleanDef) = Count(allRawSenses, NormalizesToEmpty)

\* the clusters the sense is similar to: similarity above the threshold
SimilarTo(cls, sense, threshold) ==
    {i \in 1..Len(cls) : FracGT(calculateSimilarity(sense.cleanDef, cls[i].cleanDef), threshold)}
\* an iteration of the clustering loop is taken
LoopIteration == cpc = "loop" /\ idx' = idx + 1

\* C33: a sense with synonyms that is similar to some cluster is merged into the
\* earliest such cluster in creation order, whatever its similarity to the later
\* ones, and every other cluster is left as it was; no cluster is added.
C33_FirstMatchWins ==
    [][LoopIteration =>
          LET sense == processedSenses[idx]
              similar == SimilarTo(clusters, sense, similarityThreshold)
          IN  (sense.synonymCount > 0 /\ similar # {}) =>
                  /\ Len(clusters') = Len(clusters)
                  /\ \A i \in 1..Len(clusters) :
                         IF i \in similar /\ \A j \in similar : i <= j
                         THEN /\ SetOf(clusters'[i].synonyms) =
                                     SetOf(clusters[i].synonyms) \cup SetOf(sense.synonyms)
                              /\ clusters'[i].synonymCount = Len(clusters'[i].synonyms)
                         ELSE clusters'[i] = clusters[i]]_vars

\* the third sense was merged into the first of two clusters although it is more
\* similar to the second than to the first as it was: the second still has the
\* one synonym it was seeded with
C33_Witness ==
    /\ cpc = "loop" /\ idx = 4
    /\ Len(clusters) = 2
    /\ FracGT(calculateSimilarity(processedSenses[3].cleanDef, processedSenses[1].cleanDef),
              similarityThreshold)
    /\ FracGT(calculateSimilarity(processedSenses[3].cleanDef, clusters[2].cleanDef),
              calculateSimilarity(processedSenses[3].cleanDef, processedSenses[1].cleanDef))
    /\ clusters[1].synonyms = <<"x", "y", "w">>
    /\ clusters[2].synonyms = <<"z">>

\* the clusters whose similarity to the sense is the threshold exactly
AtThreshold(cls, sense, threshold) ==
    {i \in 1..Len(cls) : FracEq(calculateSimilarity(sense.cleanDef, cls[i].cleanDef), threshold)}

\* C34: a cluster whose similarity to the sense equals the threshold exactly does
\* not absorb it; when no cluster's similarity is greater than the threshold, the
\* sense seeds a new cluster, appended after the existing ones.
C34_MergeTestStrict ==
    [][LoopIteration =>
          LET sense == processedSenses[idx]
              atThreshold == AtThreshold(clusters, sense, similarityThreshold)
              similar == SimilarTo(clusters, sense, similarityThreshold)
          IN  (sense.synonymCount > 0 /\ atThreshold # {}) =>
                  /\ \A i \in atThreshold : clusters'[i] = clusters[i]
                  /\ similar = {} =>
                         /\ Len(clusters') = Len(clusters) + 1
                         /\ clusters'[Len(clusters')] = sense]_vars

\* the second sense scored exactly the threshold against the one cluster there
\* was, and seeded the second cluster
C34_Witness ==
    /\ cpc = "loop" /\ idx = 3
    /\ Len(clusters) = 2
    /\ FracEq(calculateSimilarity(processedSenses[2].cleanDef, clusters[1].cleanDef),
              similarityThreshold)
    /\ clusters[1] = processedSenses[1]
    /\ clusters[2] = processedSenses[2]

\* the sense that seeded a cluster: its first member
SeedOf(members) == CHOOSE j \in members : \A k \in members : j <= k

\* C35: the senses are offered to the loop in non-increasing order of their own
\* synonym count (the length of their synonyms list), and in every cluster the
\* sense that seeded it has at least as many synonyms as each sense merged into
\* it afterwards.
C35_SeedHasMostSynonyms ==
    /\ cpc \in {"loop", "done"} =>
           /\ Len(processedSenses) = Len(allRawSenses)
           /\ \A i, j \in 1..Len(processedSenses) :
                  /\ processedSenses[i].synonymCount = Len(processedSenses[i].synonyms)
                  /\ i < j => processedSenses[i].synonymCount >= processedSenses[j].synonymCount
    /\ cpc = "done" =>
           LET members == MembersOf(processedSenses, Len(processedSenses), similarityThreshold)
           IN  \A c \in 1..Len(members) :
                   \A j \in members[c] :
                       Len(processedSenses[SeedOf(members[c])].synonyms) >=
                           Len(processedSenses[j].synonyms)

\* the reply named a sense with one synonym before a sense with two, and the two
\* ended up in one cluster, seeded by the sense with two
C35_Witness ==
    /\ cpc = "done"
    /\ Len(allRawSenses) >= 2
    /\ Len(allRawSenses[1].synonyms) = 1
    /\ Len(allRawSenses[Len(allRawSenses)].synonyms) = 2
    /\ LET members == MembersOf(processedSenses, Len(processedSenses), similarityThreshold)
       IN  /\ Len(members) = 1
           /\ Cardinality(members[1]) = Len(allRawSenses)
           /\ processedSenses[SeedOf(members[1])].definition =
                  allRawSenses[Len(allRawSenses)].definition

\* C36: no step of processSensesWithClustering changes the array of raw senses
\* it was given, the definition of a raw sense or the synonyms sequence of a raw
\* sense; and the result is the one computed from those senses.
C36_InputUnchanged ==
    /\ [][/\ allRawSenses' = allRawSenses
          /\ RawViewsOf(heap', allRawSenses') = RawViewsOf(heap, allRawSenses)
          /\ \A i \in 1..Len(allRawSenses) : heap'[allRawSenses[i]] = heap[allRawSenses[i]]]_vars
    /\ [](cpc = "done" =>
             result = processSensesWithClustering(RawViewsOf(heap, allRawSenses),
                          primarySenseCount, maxTotalSenses, similarityThreshold))

\* the first raw sense seeded a cluster, which shared its synonyms array; the
\* cluster then absorbed another sense and holds more synonyms than the raw sense
C36_Witness ==
    /\ cpc = "done"
    /\ Len(allRawSenses) >= 2
    /\ \E c \in 1..Len(clusters) :
           /\ heap[clusters[c]].definition = heap[allRawSenses[1]].definition
           /\ heap[clusters[c]].synonyms # heap[allRawSenses[1]].synonyms
           /\ SubSeq(ItemsOf(heap, clusters[c]), 1, Len(ItemsOf(heap, allRawSenses[1]))) =
                  ItemsOf(heap, allRawSenses[1])
           /\ Len(ItemsOf(heap, clusters[c])) > Len(ItemsOf(heap, allRawSenses[1]))

\* the synonyms of the senses or clusters of seq, as a set
AllSynonyms(seq) == UNION {SetOf(seq[i].synonyms) : i \in 1..Len(seq)}

\* C37: the clusters hold exactly the synonyms of the senses offered so far; in
\* the end every sense with synonyms is a member of exactly one cluster, and
\* when there are at most maxTotalSenses clusters the result holds every synonym
\* of the input. No step removes a cluster or takes a synonym out of one.
C37_NoSynonymLostOrInvented ==
    /\ [](cpc = "loop" =>
             AllSynonyms(clusters) = AllSynonyms(SubSeq(processedSenses, 1, idx - 1)))
    /\ [](cpc = "done" =>
             LET members == MembersOf(processedSenses, Len(processedSenses),
                                      similarityThreshold)
             IN  /\ AllSynonyms(clusters) = AllSynonyms(allRawSenses)
                 /\ Len(members) = Len(clusters)
                 /\ \A k \in 1..Len(processedSenses) :
                        Cardinality({c \in 1..Len(members) : k \in members[c]}) =
                            IF processedSenses[k].synonymCount > 0 THEN 1 ELSE 0
                 /\ Len(clusters) <= maxTotalSenses =>
                        AllSynonyms(OutputClusters(result)) = AllSynonyms(allRawSenses))
    /\ [][/\ LoopIteration =>
                 /\ Len(clusters') >= Len(clusters)
                 /\ \A i \in 1..Len(clusters) :
                        SetOf(clusters[i].synonyms) \subseteq SetOf(clusters'[i].synonyms)
          /\ cpc' = "done" =>
                 /\ Len(clusters') = Len(clusters)
                 /\ SetOf(clusters') = SetOf(clusters)]_vars

\* two senses were merged, the clusters fit within maxTotalSenses but not within
\* primarySenseCount, and the result holds every synonym of the reply
C37_Witness ==
    /\ cpc = "done"
    /\ Len(clusters) < Len(NonEmptySenses(allRawSenses))
    /\ primarySenseCount < Len(clusters)
    /\ Len(clusters) <= maxTotalSenses
    /\ Len(result.additionalSenses.items) >= 1
    /\ Cardinality(AllSynonyms(allRawSenses)) >= 3
    /\ AllSynonyms(OutputClusters(result)) = AllSynonyms(allRawSenses)

----------------------------------------------------------------------------
(* Further properties of the handler *)

IsDisambiguation(r) ==
    inv[r].pc = "done" /\ inv[r].response.body.kind = "disambiguation"

\* C38: a disambiguation response holds at least two senses, and when its hasMore
\* is true it holds exactly three and a non-empty list of additional senses; no
\* clustering the handler computes has one sense and hasMore.
C38_DisambiguationAtLeastTwo ==
    \A r \in Reqs :
        /\ ~(Len(inv[r].processedSenses.senses) = 1 /\ inv[r].processedSenses.hasMore)
        /\ IsDisambiguation(r) =>
               /\ Len(inv[r].response.body.senses) >= 2
               /\ inv[r].response.body.hasMore =>
                      /\ Len(inv[r].response.body.senses) = DefaultPrimarySenseCount
                      /\ inv[r].response.body.additionalSenses.kind = "list"
                      /\ Len(inv[r].response.body.additionalSenses.items) >= 1

\* a reply with four clusters was answered with three senses and hasMore
C38_Witness ==
    \E r \in Reqs :
        /\ IsDisambiguation(r)
        /\ inv[r].response.statusCode = 200
        /\ inv[r].response.body.hasMore
        /\ Len(inv[r].response.body.senses) = 3
        /\ Len(inv[r].response.body.additionalSenses.items) = 1

\* the prompts of a classification request for the parameters of request r
PromptsOfBody(r) ==
    getLLMPrompt(Body(r).word, Body(r).partOfSpeech, Body(r).category, Body(r).synonyms)

\* C39: under every interleaving, each value the cache holds under a key is an
\* answer of the gateway to the prompts of a request that derives that key, and
\* a request served from the cache gets an answer to the prompts of its own
\* parameters.
C39_CacheValueMatchesKey ==
    /\ \A k \in DOMAIN cache :
           \E r \in Racers :
               /\ k = KeyOfBody(r)
               /\ cache[k] \in LlmAnswers(PromptsOfBody(r))
    /\ \A r \in Racers :
           inv[r].cacheRead = "hit" =>
               /\ inv[r].pc = "done"
               /\ inv[r].gatewayCalls = 0
               /\ inv[r].apiResponse \in LlmAnswers(PromptsOfBody(r))
               /\ inv[r].response.body.value.answers = PromptsOfBody(r)

\* two requests with different synonyms ran together: one was served from the
\* cache, the other stored its answer, and the cache holds a value for each
C39_Witness ==
    \E r, q \in Racers :
        /\ KeyOfBody(r) # KeyOfBody(q)
        /\ inv[r].pc = "done" /\ inv[r].cacheRead = "hit"
        /\ inv[q].pc = "done" /\ inv[q].cacheWrite = "ok"
        /\ DOMAIN cache = {KeyOfBody(r), KeyOfBody(q)}
        /\ cache[KeyOfBody(r)] # cache[KeyOfBody(q)]

Statuses == {200, 400, 404, 405, 500}

\* C40: every request that arrives ends with a response; a response has one of
\* the five statuses, is given once and at the end of the invocation, and is
\* never changed; OPTIONS is answered 200 with an empty body and any method
\* other than OPTIONS and POST is answered 405, both without a collaborator call.
C40_TerminatesWithOneResponse ==
    /\ \A r \in Reqs : (inv[r].pc = "start") ~> (inv[r].pc = "done")
    /\ [](\A r \in Reqs :
             /\ (inv[r].pc = "done") <=> (inv[r].response # NoResponse)
             /\ inv[r].pc = "done" =>
                    /\ inv[r].response.statusCode \in Statuses
                    /\ event[r].httpMethod = "OPTIONS" =>
                           /\ inv[r].response = [statusCode |-> 200, body |-> [kind |-> "empty"]]
                           /\ NoCollaboratorCalled(inv[r])
                    /\ event[r].httpMethod \notin {"OPTIONS", "POST"} =>
                           /\ inv[r].response.statusCode = 405
                           /\ NoCollaboratorCalled(inv[r]))
    /\ [][\A r \in Reqs : inv[r].response # NoResponse => inv'[r] = inv[r]]_vars

\* a request ended with 200 after the thesaurus, the cache and the gateway had
\* each been called and the fifth model had answered
C40_Witness ==
    \E r \in Reqs :
        /\ inv[r].pc = "done"
        /\ inv[r].response.statusCode = 200
        /\ inv[r].thesaurusCalls = 1 /\ inv[r].cacheGets = 1
        /\ inv[r].gatewayCalls = 1 /\ inv[r].cacheSets = 1
        /\ Len(inv[r].modelsTried) = NumModels

====
